---- MODULE Spec2Model ----
(***************************************************************************)
(* Model of agui-go: the stateful event converters (BaseConverter in       *)
(* converter.go, ADKConverter in adapter.go), the encoders and the         *)
(* Accept-header negotiation of encoder.go, and the HTTP handlers (Handler *)
(* in handler.go, ADKHandler in adapter.go).                               *)
(*                                                                         *)
(* Events are records carrying the Go struct's fields under the Go field   *)
(* names.  Base.Timestamp (time.Now().UnixMilli()) and Base.RawEvent are   *)
(* not part of the records: no converter operation reads them; WithBase    *)
(* adds them where the serialization of a struct is modelled.              *)
(* uuid.New().String() and the SDK's events.Generate*ID() are modelled by  *)
(* a counter: every generated id is a non-empty string never seen before.  *)
(*                                                                         *)
(* The specifications share the variables: Spec (a converter called by    *)
(* one producer), SpecLock (a converter called by concurrent goroutines),  *)
(* SpecAccept (ParseAcceptHeader), SpecEncoder (an encoder on its own),    *)
(* SpecHandler (one request served by a handler) and SpecHandlerFair (the  *)
(* same under fair scheduling of the handler).  Each fixes the variables   *)
(* of the others.                                                          *)
(***************************************************************************)
EXTENDS Integers, Sequences, FiniteSets, TLC

VARIABLES
    kind,       \* which converter the run constructed: "base" or "adk"
    newArgs,    \* the threadID and runID handed to its constructor
    base,       \* the BaseConverter struct
    adk,        \* the ADKConverter struct
    uuids,      \* number of ids generated so far
    ret,        \* events returned by the last operation
    stream,     \* concatenation of everything returned so far
    trace,      \* the calls made so far, with their arguments
    accept,     \* Accept header handed to ParseAcceptHeader
    contentType,\* result of ParseAcceptHeader(accept)
    encoder,    \* the SSE or JSON encoder struct: its framing and flusher
    wire,       \* what the io.Writer has been handed, in order
    flushed,    \* how much of wire the last Flush() pushed out
    flushCount, \* number of Flush() calls on the http.Flusher
    encoded,    \* the events whose Encode returned nil, in call order
    encCall,    \* the last encoder call, with arguments and result
    hkind,      \* which handler serves: "Handler" or "ADKHandler"
    request,    \* the *http.Request being served
    resp,       \* status and headers of the http.ResponseWriter
    hpc,        \* where the handler is: "idle", "sse", "json", "done"
    runCalls,   \* the contexts the producer was invoked with
    sent,       \* what the producer has put on its channel / yielded
    eventsCh,   \* the channel returned by EventSource.Run: queued events
    closed,     \* the producer closed the channel
    consumed,   \* what the handler has received from the producer
    allEvents,  \* handleJSON's buffer
    sessionCalls, \* the calls ensureSession made on the session service
    cancelled,  \* the request's context is done
    mu,         \* the converter's sync.Mutex: "" or the goroutine holding it
    gor,        \* the goroutines calling the converter: where each one is
    raced       \* mutable state was read or written without the mutex

convVars == <<kind, newArgs, base, adk, uuids, ret, stream, trace>>
acceptVars == <<accept, contentType>>
encVars == <<encoder, wire, flushed, flushCount, encoded, encCall>>
handlerVars == <<hkind, request, resp, hpc, runCalls, sent, eventsCh, closed,
                 consumed, allEvents, sessionCalls, cancelled>>
lockVars == <<mu, gor, raced>>
vars == <<kind, newArgs, base, adk, uuids, ret, stream, trace, accept, contentType,
          encoder, wire, flushed, flushCount, encoded, encCall,
          hkind, request, resp, hpc, runCalls, sent, eventsCh, closed,
          consumed, allEvents, sessionCalls, cancelled, mu, gor, raced>>

----------------------------------------------------------------------------
(* Bounds *)

MaxOps == 4
MaxADKOps == 2
MaxAccept == 3
MaxEncode == 3
MaxEvents == 3
MaxCalls == 3

(* Inputs *)

NewArgsIn == {<<"", "">>, <<"t1", "r1">>, <<"", "r1">>}
Roles == {"assistant", "user"}
ToolNames == {"search"}
ToolCallIDs == {"", "tool-1"}
ArgsJSON == {"{}"}
Contents == {"42"}

----------------------------------------------------------------------------
(* Events, types.go *)

RunStarted(t, r) == [Type |-> "RUN_STARTED", ThreadID |-> t, RunID |-> r]
RunFinished(t, r) == [Type |-> "RUN_FINISHED", ThreadID |-> t, RunID |-> r]
RunError(t, r, msg) ==
    [Type |-> "RUN_ERROR", ThreadID |-> t, RunID |-> r, Message |-> msg, Code |-> ""]
TextMessageStart(m, role) ==
    [Type |-> "TEXT_MESSAGE_START", MessageID |-> m, Role |-> role]
TextMessageContent(m, delta) ==
    [Type |-> "TEXT_MESSAGE_CONTENT", MessageID |-> m, Delta |-> delta]
TextMessageEnd(m) == [Type |-> "TEXT_MESSAGE_END", MessageID |-> m]
ToolCallStart(id, name, parent) ==
    [Type |-> "TOOL_CALL_START", ToolCallID |-> id, ToolCallName |-> name,
     ParentMessageID |-> parent]
ToolCallArgs(id, delta) ==
    [Type |-> "TOOL_CALL_ARGS", ToolCallID |-> id, Delta |-> delta]
ToolCallEnd(id) == [Type |-> "TOOL_CALL_END", ToolCallID |-> id]
ToolCallResult(m, id, role, content) ==
    [Type |-> "TOOL_CALL_RESULT", MessageID |-> m, ToolCallID |-> id,
     Role |-> role, Content |-> content]

----------------------------------------------------------------------------
(* Helpers *)

\* uuid.New().String(): the n-th generated id
UUID(n) == "uuid-" \o ToString(n)

\* Go map operations
EmptyMap == [x \in {} |-> TRUE]
MapPut(m, k, v) == [x \in (DOMAIN m) \cup {k} |-> IF x = k THEN v ELSE m[x]]
MapDelete(m, k) == [x \in (DOMAIN m) \ {k} |-> m[x]]

toolCallState(id, name) ==
    [toolCallID |-> id, toolName |-> name, argsBuffer |-> "",
     started |-> TRUE, ended |-> FALSE]

\* the converter that the run did not construct
NoConverter == [threadID |-> "", runID |-> "", currentMessageID |-> "",
                messageStarted |-> FALSE, activeToolCalls |-> EmptyMap]

\* bookkeeping common to every call: what it returned and that it was made
Returns(call, events) ==
    /\ ret' = events
    /\ stream' = stream \o events
    /\ trace' = Append(trace, call)

\* no encoder call made
NoCall == [n |-> 0, op |-> "", events |-> <<>>, outcomes |-> <<>>, err |-> "",
           tried |-> 0, data |-> <<>>]

\* no encoder constructed, nothing written
NoEncoder ==
    /\ encoder = [format |-> "none", flusher |-> FALSE]
    /\ wire = <<>>
    /\ flushed = 0
    /\ flushCount = 0
    /\ encoded = <<>>
    /\ encCall = NoCall

NoResponse == [Status |-> 0, Header |-> EmptyMap]

\* no request served
NoRequest ==
    /\ hkind = "none"
    /\ request = [Method |-> "", Accept |-> <<>>,
                 Body |-> [err |-> "", input |-> [ThreadID |-> "", RunID |-> ""]]]
    /\ resp = NoResponse
    /\ hpc = "idle"
    /\ runCalls = <<>>
    /\ sent = <<>>
    /\ eventsCh = <<>>
    /\ closed = FALSE
    /\ consumed = <<>>
    /\ allEvents = <<>>
    /\ sessionCalls = <<>>
    /\ cancelled = FALSE

\* the goroutines that may call one converter at the same time
Goroutines == {"g1", "g2"}

\* no goroutine is in a call of the converter and its mutex is free
Unlocked ==
    /\ mu = ""
    /\ gor = [g \in Goroutines |->
                [pc |-> "idle", op |-> "", arg |-> "", br |-> FALSE, old |-> "",
                 ev |-> <<>>]]
    /\ raced = FALSE

----------------------------------------------------------------------------
(* BaseConverter, converter.go *)

NewBaseConverterKeepsBlank(threadID, runID) ==
    [threadID |-> threadID, runID |-> runID, currentMessageID |-> "",
     messageStarted |-> FALSE, activeToolCalls |-> EmptyMap]

NewBaseConverter(threadID, runID) ==
    LET t == IF threadID = "" THEN UUID(1) ELSE threadID
        g == IF threadID = "" THEN 1 ELSE 0
        r == IF runID = "" THEN UUID(g + 1) ELSE runID
    IN  [threadID |-> t, runID |-> r, currentMessageID |-> "",
         messageStarted |-> FALSE, activeToolCalls |-> EmptyMap]

BaseEnabled == kind = "base" /\ Len(trace) < MaxOps

StartRun ==
    /\ BaseEnabled
    /\ Returns([op |-> "StartRun"], <<RunStarted(base.threadID, base.runID)>>)
    /\ UNCHANGED <<kind, newArgs, base, adk, uuids, acceptVars, encVars, handlerVars, lockVars>>

FinishRunLeavesOpen ==
    /\ BaseEnabled
    /\ base' = base
    /\ Returns([op |-> "FinishRun"],
               (IF base.messageStarted
                  THEN <<TextMessageEnd(base.currentMessageID)>> ELSE <<>>)
               \o <<RunFinished(base.threadID, base.runID)>>)
    /\ UNCHANGED <<kind, newArgs, adk, uuids, acceptVars, encVars, handlerVars, lockVars>>

FinishRun ==
    /\ BaseEnabled
    /\ base' = [base EXCEPT !.messageStarted = FALSE]
    /\ Returns([op |-> "FinishRun"],
               (IF base.messageStarted
                  THEN <<TextMessageEnd(base.currentMessageID)>> ELSE <<>>)
               \o <<RunFinished(base.threadID, base.runID)>>)
    /\ UNCHANGED <<kind, newArgs, adk, uuids, acceptVars, encVars, handlerVars, lockVars>>

ErrorRunNoThreadID(err) ==
    /\ BaseEnabled
    /\ base' = [base EXCEPT !.messageStarted = FALSE]
    /\ Returns([op |-> "ErrorRun", err |-> err],
               (IF base.messageStarted
                  THEN <<TextMessageEnd(base.currentMessageID)>> ELSE <<>>)
               \o <<RunError("", base.runID, err)>>)
    /\ UNCHANGED <<kind, newArgs, adk, uuids, acceptVars, encVars, handlerVars, lockVars>>

ErrorRunLeavesOpen(err) ==
    /\ BaseEnabled
    /\ base' = base
    /\ Returns([op |-> "ErrorRun", err |-> err],
               (IF base.messageStarted
                  THEN <<TextMessageEnd(base.currentMessageID)>> ELSE <<>>)
               \o <<RunError(base.threadID, base.runID, err)>>)
    /\ UNCHANGED <<kind, newArgs, adk, uuids, acceptVars, encVars, handlerVars, lockVars>>

ErrorRunOp(err) ==
    /\ BaseEnabled
    /\ base' = [base EXCEPT !.messageStarted = FALSE]
    /\ Returns([op |-> "ErrorRun", err |-> err],
               (IF base.messageStarted
                  THEN <<TextMessageEnd(base.currentMessageID)>> ELSE <<>>)
               \o <<RunError(base.threadID, base.runID, err)>>)
    /\ UNCHANGED <<kind, newArgs, adk, uuids, acceptVars, encVars, handlerVars, lockVars>>

ErrorRun == \E err \in {"boom"} : ErrorRunOp(err)

StartMessageNoClose(role) ==
    /\ BaseEnabled
    /\ uuids' = uuids + 1
    /\ base' = [base EXCEPT !.currentMessageID = UUID(uuids + 1),
                            !.messageStarted = TRUE]
    /\ Returns([op |-> "StartMessage", role |-> role],
               <<TextMessageStart(UUID(uuids + 1), role)>>)
    /\ UNCHANGED <<kind, newArgs, adk, acceptVars, encVars, handlerVars, lockVars>>

StartMessageOp(role) ==
    /\ BaseEnabled
    /\ uuids' = uuids + 1
    /\ base' = [base EXCEPT !.currentMessageID = UUID(uuids + 1),
                            !.messageStarted = TRUE]
    /\ Returns([op |-> "StartMessage", role |-> role],
               (IF base.messageStarted
                  THEN <<TextMessageEnd(base.currentMessageID)>> ELSE <<>>)
               \o <<TextMessageStart(UUID(uuids + 1), role)>>)
    /\ UNCHANGED <<kind, newArgs, adk, acceptVars, encVars, handlerVars, lockVars>>

StartMessage == \E role \in Roles : StartMessageOp(role)

AddMessageContentNoID(text) ==
    /\ BaseEnabled
    /\ Returns([op |-> "AddMessageContent", text |-> text],
               <<TextMessageContent("", text)>>)
    /\ UNCHANGED <<kind, newArgs, base, adk, uuids, acceptVars, encVars, handlerVars, lockVars>>

AddMessageContentOp(text) ==
    /\ BaseEnabled
    /\ Returns([op |-> "AddMessageContent", text |-> text],
               <<TextMessageContent(base.currentMessageID, text)>>)
    /\ UNCHANGED <<kind, newArgs, base, adk, uuids, acceptVars, encVars, handlerVars, lockVars>>

AddMessageContent == \E text \in {"hi"} : AddMessageContentOp(text)

EndMessageClearsID ==
    /\ BaseEnabled
    /\ base' = [base EXCEPT !.messageStarted = FALSE, !.currentMessageID = ""]
    /\ Returns([op |-> "EndMessage"], <<TextMessageEnd(base.currentMessageID)>>)
    /\ UNCHANGED <<kind, newArgs, adk, uuids, acceptVars, encVars, handlerVars, lockVars>>

EndMessage ==
    /\ BaseEnabled
    /\ base' = [base EXCEPT !.messageStarted = FALSE]
    /\ Returns([op |-> "EndMessage"], <<TextMessageEnd(base.currentMessageID)>>)
    /\ UNCHANGED <<kind, newArgs, adk, uuids, acceptVars, encVars, handlerVars, lockVars>>

StartToolCallBlankID(toolName, toolCallID) ==
    /\ BaseEnabled
    /\ uuids' = uuids
    /\ base' = [base EXCEPT
                  !.messageStarted = FALSE,
                  !.activeToolCalls =
                      MapPut(base.activeToolCalls, toolCallID,
                             toolCallState(toolCallID, toolName))]
    /\ Returns([op |-> "StartToolCall", toolName |-> toolName,
                toolCallID |-> toolCallID],
               (IF base.messageStarted
                  THEN <<TextMessageEnd(base.currentMessageID)>> ELSE <<>>)
               \o <<ToolCallStart(toolCallID, toolName, base.currentMessageID)>>)
    /\ UNCHANGED <<kind, newArgs, adk, acceptVars, encVars, handlerVars, lockVars>>

StartToolCallParentIfOpen(toolName, toolCallID) ==
    LET id == IF toolCallID = "" THEN UUID(uuids + 1) ELSE toolCallID
    IN  /\ BaseEnabled
        /\ uuids' = IF toolCallID = "" THEN uuids + 1 ELSE uuids
        /\ base' = [base EXCEPT
                      !.messageStarted = FALSE,
                      !.activeToolCalls =
                          MapPut(base.activeToolCalls, id, toolCallState(id, toolName))]
        /\ Returns([op |-> "StartToolCall", toolName |-> toolName,
                    toolCallID |-> toolCallID],
                   (IF base.messageStarted
                      THEN <<TextMessageEnd(base.currentMessageID)>> ELSE <<>>)
                   \o <<ToolCallStart(id, toolName,
                                      IF base.messageStarted
                                        THEN base.currentMessageID ELSE "")>>)
        /\ UNCHANGED <<kind, newArgs, adk, acceptVars, encVars, handlerVars, lockVars>>

StartToolCallOp(toolName, toolCallID) ==
    LET id == IF toolCallID = "" THEN UUID(uuids + 1) ELSE toolCallID
    IN  /\ BaseEnabled
        /\ uuids' = IF toolCallID = "" THEN uuids + 1 ELSE uuids
        /\ base' = [base EXCEPT
                      !.messageStarted = FALSE,
                      !.activeToolCalls =
                          MapPut(base.activeToolCalls, id, toolCallState(id, toolName))]
        /\ Returns([op |-> "StartToolCall", toolName |-> toolName,
                    toolCallID |-> toolCallID],
                   (IF base.messageStarted
                      THEN <<TextMessageEnd(base.currentMessageID)>> ELSE <<>>)
                   \o <<ToolCallStart(id, toolName, base.currentMessageID)>>)
        /\ UNCHANGED <<kind, newArgs, adk, acceptVars, encVars, handlerVars, lockVars>>

StartToolCall ==
    \E toolName \in ToolNames, toolCallID \in ToolCallIDs :
        StartToolCallOp(toolName, toolCallID)

\* ids a producer can pass to the per-call operations: the one it supplies
\* itself and the ones StartToolCall generated and still tracks
KnownToolCallIDs == (ToolCallIDs \ {""}) \cup DOMAIN base.activeToolCalls

AddToolCallArgsOp(toolCallID, argsJSON) ==
    /\ BaseEnabled
    /\ Returns([op |-> "AddToolCallArgs", toolCallID |-> toolCallID,
                argsJSON |-> argsJSON],
               <<ToolCallArgs(toolCallID, argsJSON)>>)
    /\ UNCHANGED <<kind, newArgs, base, adk, uuids, acceptVars, encVars, handlerVars, lockVars>>

AddToolCallArgs ==
    \E toolCallID \in KnownToolCallIDs, argsJSON \in ArgsJSON :
        AddToolCallArgsOp(toolCallID, argsJSON)

EndToolCallEvicts(toolCallID) ==
    /\ BaseEnabled
    /\ base' = [base EXCEPT
                  !.activeToolCalls = MapDelete(base.activeToolCalls, toolCallID)]
    /\ Returns([op |-> "EndToolCall", toolCallID |-> toolCallID],
               <<ToolCallEnd(toolCallID)>>)
    /\ UNCHANGED <<kind, newArgs, adk, uuids, acceptVars, encVars, handlerVars, lockVars>>

EndToolCallOp(toolCallID) ==
    /\ BaseEnabled
    /\ Returns([op |-> "EndToolCall", toolCallID |-> toolCallID],
               <<ToolCallEnd(toolCallID)>>)
    /\ UNCHANGED <<kind, newArgs, base, adk, uuids, acceptVars, encVars, handlerVars, lockVars>>

EndToolCall == \E toolCallID \in KnownToolCallIDs : EndToolCallOp(toolCallID)

AddToolCallResultKeepsEntry(toolCallID, content) ==
    /\ BaseEnabled
    /\ uuids' = uuids + 1
    /\ base' = base
    /\ Returns([op |-> "AddToolCallResult", toolCallID |-> toolCallID,
                content |-> content],
               <<ToolCallResult(UUID(uuids + 1), toolCallID, "tool", content)>>)
    /\ UNCHANGED <<kind, newArgs, adk, acceptVars, encVars, handlerVars, lockVars>>

AddToolCallResultOp(toolCallID, content) ==
    /\ BaseEnabled
    /\ uuids' = uuids + 1
    /\ base' = [base EXCEPT
                  !.activeToolCalls = MapDelete(base.activeToolCalls, toolCallID)]
    /\ Returns([op |-> "AddToolCallResult", toolCallID |-> toolCallID,
                content |-> content],
               <<ToolCallResult(UUID(uuids + 1), toolCallID, "tool", content)>>)
    /\ UNCHANGED <<kind, newArgs, adk, acceptVars, encVars, handlerVars, lockVars>>

AddToolCallResult ==
    \E toolCallID \in KnownToolCallIDs, content \in Contents :
        AddToolCallResultOp(toolCallID, content)

BaseNext ==
    \/ StartRun
    \/ FinishRun
    \/ ErrorRun
    \/ StartMessage
    \/ AddMessageContent
    \/ EndMessage
    \/ StartToolCall
    \/ AddToolCallArgs
    \/ EndToolCall
    \/ AddToolCallResult

----------------------------------------------------------------------------
(* ADKConverter, adapter.go.  The AG-UI SDK's event constructors           *)
(* (events.New...Event) are outside the repository; an SDK event is the    *)
(* record of its type and of the arguments the constructor was given.      *)

ThinkingStart == [Type |-> "THINKING_START"]
ThinkingEnd == [Type |-> "THINKING_END"]
ThinkingTextMessageStart == [Type |-> "THINKING_TEXT_MESSAGE_START"]
ThinkingTextMessageContent(delta) ==
    [Type |-> "THINKING_TEXT_MESSAGE_CONTENT", Delta |-> delta]
ThinkingTextMessageEnd == [Type |-> "THINKING_TEXT_MESSAGE_END"]
ActivitySnapshot(m, activityType) ==
    [Type |-> "ACTIVITY_SNAPSHOT", MessageID |-> m, ActivityType |-> activityType]
StateDelta(ops) == [Type |-> "STATE_DELTA", Delta |-> ops]
StepStarted(name) == [Type |-> "STEP_STARTED", StepName |-> name]
StepFinished(name) == [Type |-> "STEP_FINISHED", StepName |-> name]
Raw(e) == [Type |-> "RAW", Event |-> e]
Custom(name) == [Type |-> "CUSTOM", Name |-> name]

\* a nil pointer is the empty sequence, a set pointer a one-element sequence
Nil == <<>>
Ptr(x) == <<x>>
Deref(p) == p[1]

Options(raw, step, activity) ==
    [IncludeRawEvents |-> raw, EmitStepEvents |-> step, EmitActivityEvents |-> activity]

NewADKConverter(threadID, runID, options) ==
    LET t == IF threadID = "" THEN UUID(1) ELSE threadID
        g == IF threadID = "" THEN 1 ELSE 0
        r == IF runID = "" THEN UUID(g + 1) ELSE runID
    IN  [threadID |-> t, runID |-> r, currentMessageID |-> "",
         messageStarted |-> FALSE, activeToolCalls |-> EmptyMap,
         options |-> options]

handleThoughtNoEnd(s, adkEvent, thought) ==
    IF thought = "" THEN s
    ELSE [s EXCEPT !.ev = s.ev
            \o <<ThinkingStart, ThinkingTextMessageStart,
                 ThinkingTextMessageContent(thought), ThinkingTextMessageEnd>>]

handleThoughtAsSteps(s, adkEvent, thought) ==
    IF thought = "" THEN s
    ELSE [s EXCEPT !.ev = s.ev
            \o (IF s.c.options.EmitStepEvents
                  THEN <<StepStarted("agent_thinking"), StepFinished("agent_thinking")>>
                  ELSE <<Custom("thinking")>>)]

handleTextPartAlwaysStarts(s, adkEvent, text) ==
    LET id == UUID(s.n + 1)
    IN  [c |-> [s.c EXCEPT !.currentMessageID = id, !.messageStarted = TRUE],
         n |-> s.n + 1,
         ev |-> s.ev \o <<TextMessageStart(id, "assistant"),
                          TextMessageContent(id, text)>>]

handleFunctionCallKeepsOpen(s, fc) ==
    LET toolCallID == IF fc.ID = "" THEN UUID(s.n + 1) ELSE fc.ID
    IN  [c |-> [s.c EXCEPT !.activeToolCalls =
                              MapPut(s.c.activeToolCalls, toolCallID, TRUE)],
         n |-> IF fc.ID = "" THEN s.n + 1 ELSE s.n,
         ev |-> s.ev
            \o <<ToolCallStart(toolCallID, fc.Name, "")>>
            \o (IF fc.Args # Nil
                  THEN <<ToolCallArgs(toolCallID, Deref(fc.Args))>> ELSE <<>>)
            \o <<ToolCallEnd(toolCallID)>>]

\* The handlers of ConvertEvent thread a record s through the parts:
\* s.c the converter, s.n the number of ids generated, s.ev the result so far.

handleThought(s, adkEvent, thought) ==
    IF thought = "" THEN s
    ELSE [s EXCEPT !.ev = s.ev
            \o <<ThinkingStart>>
            \o (IF s.c.options.EmitActivityEvents
                  THEN <<ActivitySnapshot(s.c.currentMessageID, "thinking")>>
                  ELSE <<>>)
            \o <<ThinkingTextMessageStart, ThinkingTextMessageContent(thought),
                 ThinkingTextMessageEnd, ThinkingEnd>>]

handleTextPart(s, adkEvent, text) ==
    IF ~s.c.messageStarted
    THEN LET id == UUID(s.n + 1)
             role == IF adkEvent.Author = "user" THEN "user" ELSE "assistant"
         IN  [c |-> [s.c EXCEPT !.currentMessageID = id, !.messageStarted = TRUE],
              n |-> s.n + 1,
              ev |-> s.ev \o <<TextMessageStart(id, role), TextMessageContent(id, text)>>]
    ELSE [s EXCEPT !.ev = s.ev \o <<TextMessageContent(s.c.currentMessageID, text)>>]

handleFunctionCall(s, fc) ==
    LET toolCallID == IF fc.ID = "" THEN UUID(s.n + 1) ELSE fc.ID
    IN  [c |-> [s.c EXCEPT !.messageStarted = FALSE,
                           !.activeToolCalls = MapPut(s.c.activeToolCalls, toolCallID, TRUE)],
         n |-> IF fc.ID = "" THEN s.n + 1 ELSE s.n,
         ev |-> s.ev
            \o (IF s.c.messageStarted
                  THEN <<TextMessageEnd(s.c.currentMessageID)>> ELSE <<>>)
            \o <<ToolCallStart(toolCallID, fc.Name, "")>>
            \o (IF s.c.options.EmitActivityEvents
                  THEN <<ActivitySnapshot(s.c.currentMessageID, "tool_call")>>
                  ELSE <<>>)
            \o (IF fc.Args # Nil
                  THEN <<ToolCallArgs(toolCallID, Deref(fc.Args))>> ELSE <<>>)
            \o <<ToolCallEnd(toolCallID)>>]

handleFunctionResponse(s, fr) ==
    LET g == IF fr.ID = "" THEN 1 ELSE 0
        toolCallID == IF fr.ID = "" THEN UUID(s.n + 1) ELSE fr.ID
        content == IF fr.Response # Nil THEN Deref(fr.Response) ELSE ""
        messageID == UUID(s.n + g + 1)
    IN  [c |-> [s.c EXCEPT !.activeToolCalls = MapDelete(s.c.activeToolCalls, toolCallID)],
         n |-> s.n + g + 1,
         ev |-> s.ev \o <<ToolCallResult(messageID, toolCallID, "", content)>>]

handleExecutableCode(s, code) ==
    IF code = Nil \/ Deref(code).Code = "" THEN s
    ELSE [s EXCEPT !.ev = s.ev \o <<Custom("executable_code")>>]

handleCodeExecutionResult(s, execResult) ==
    IF execResult = Nil THEN s
    ELSE [s EXCEPT !.ev = s.ev \o <<Custom("code_execution_result")>>]

handleInlineData(s, blob) ==
    IF blob = Nil THEN s
    ELSE [s EXCEPT !.ev = s.ev \o <<Custom("inline_data")>>]

handleFileData(s, fileData) ==
    IF fileData = Nil THEN s
    ELSE [s EXCEPT !.ev = s.ev \o <<Custom("file_data")>>]

\* StateDelta is a Go map ranged over in unspecified order; the inputs carry
\* at most one key, so the order of the patch operations is determined.
handleActions(s, actions) ==
    [s EXCEPT !.ev = s.ev
        \o (IF actions.StateDelta # {}
              THEN <<StateDelta({[Op |-> "replace", Path |-> k] : k \in actions.StateDelta})>>
              ELSE <<>>)
        \o (IF actions.ArtifactDelta # {}
              THEN <<Custom("artifact_delta")>> ELSE <<>>)
        \o (IF actions.TransferToAgent # ""
              THEN <<Custom("agent_transfer")>>
                   \o (IF s.c.options.EmitStepEvents
                         THEN <<StepFinished(s.c.runID),
                                StepStarted(actions.TransferToAgent)>>
                         ELSE <<>>)
              ELSE <<>>)
        \o (IF actions.Escalate THEN <<Custom("escalation")>> ELSE <<>>)]

\* the body of the loop over adkEvent.Content.Parts
convertPart(s, adkEvent, part) ==
    IF part.Thought /\ part.Text # ""
    THEN handleThought(s, adkEvent, part.Text)
    ELSE LET s1 == IF part.Text # ""
                     THEN handleTextPart(s, adkEvent, part.Text) ELSE s
             s2 == IF part.FunctionCall # Nil
                     THEN handleFunctionCall(s1, Deref(part.FunctionCall)) ELSE s1
             s3 == IF part.FunctionResponse # Nil
                     THEN handleFunctionResponse(s2, Deref(part.FunctionResponse)) ELSE s2
             s4 == IF part.ExecutableCode # Nil
                     THEN handleExecutableCode(s3, part.ExecutableCode) ELSE s3
             s5 == IF part.CodeExecutionResult # Nil
                     THEN handleCodeExecutionResult(s4, part.CodeExecutionResult) ELSE s4
             s6 == IF part.InlineData # Nil
                     THEN handleInlineData(s5, part.InlineData) ELSE s5
         IN  IF part.FileData # Nil THEN handleFileData(s6, part.FileData) ELSE s6

RECURSIVE convertParts(_, _, _)
convertParts(s, adkEvent, i) ==
    IF i > Len(adkEvent.Parts) THEN s
    ELSE convertParts(convertPart(s, adkEvent, adkEvent.Parts[i]), adkEvent, i + 1)

\* ConvertEvent as a function of the converter c and the id counter n
ConvertEventResult(c, n, adkEvent) ==
    LET s0 == [c |-> c, n |-> n,
               ev |-> IF c.options.IncludeRawEvents THEN <<Raw(adkEvent)>> ELSE <<>>]
    IN  handleActions(convertParts(s0, adkEvent, 1), adkEvent.Actions)

\* inputs of ConvertEvent: the parts and actions an ADK event may carry
NoPart == [Thought |-> FALSE, Text |-> "", FunctionCall |-> Nil,
           FunctionResponse |-> Nil, ExecutableCode |-> Nil,
           CodeExecutionResult |-> Nil, InlineData |-> Nil, FileData |-> Nil]
TextPart(text) == [NoPart EXCEPT !.Text = text]
ThoughtPart(text) == [NoPart EXCEPT !.Thought = TRUE, !.Text = text]
FunctionCallPart(id, name, args) ==
    [NoPart EXCEPT !.FunctionCall = Ptr([ID |-> id, Name |-> name, Args |-> args])]
FunctionResponsePart(id, response) ==
    [NoPart EXCEPT !.FunctionResponse = Ptr([ID |-> id, Response |-> response])]

NoActions == [StateDelta |-> {}, ArtifactDelta |-> {}, TransferToAgent |-> "",
              Escalate |-> FALSE]

PartsIn ==
    {TextPart("Hello"), ThoughtPart("hmm"), ThoughtPart(""),
     FunctionCallPart("", "search", Ptr("{}")),
     FunctionCallPart("tool-1", "search", Nil),
     FunctionResponsePart("", Ptr("42")),
     FunctionResponsePart("tool-1", Nil)}
\* author and actions of an event
EventShapes ==
    {<<"model", NoActions>>, <<"user", NoActions>>,
     <<"model", [NoActions EXCEPT !.TransferToAgent = "agent-2"]>>}

RECURSIVE SeqsUpTo(_, _)
SeqsUpTo(S, n) ==
    IF n = 0 THEN {<<>>}
    ELSE LET shorter == SeqsUpTo(S, n - 1)
         IN  shorter \cup {Append(q, x) : q \in shorter, x \in S}

\* The run of an ADKConverter is bounded by the work it was given: a call
\* counts once, a ConvertEvent once per part of its event.
CallSize(call) ==
    IF call.op = "ConvertEvent" /\ Len(call.adkEvent.Parts) > 1
      THEN Len(call.adkEvent.Parts) ELSE 1

RECURSIVE WorkDone(_)
WorkDone(tr) ==
    IF tr = <<>> THEN 0
    ELSE WorkDone(SubSeq(tr, 1, Len(tr) - 1)) + CallSize(tr[Len(tr)])

ADKEnabled == kind = "adk" /\ WorkDone(trace) < MaxADKOps

ADKStartRun ==
    /\ ADKEnabled
    /\ Returns([op |-> "StartRun"], <<RunStarted(adk.threadID, adk.runID)>>)
    /\ UNCHANGED <<kind, newArgs, base, adk, uuids, acceptVars, encVars, handlerVars, lockVars>>

FinishRunEventsNoEnd(c) == <<RunFinished(c.threadID, c.runID)>>

\* what FinishRun returns for the converter c
FinishRunEvents(c) ==
    (IF c.messageStarted THEN <<TextMessageEnd(c.currentMessageID)>> ELSE <<>>)
    \o <<RunFinished(c.threadID, c.runID)>>

ADKFinishRun ==
    /\ ADKEnabled
    /\ adk' = [adk EXCEPT !.messageStarted = FALSE]
    /\ Returns([op |-> "FinishRun"], FinishRunEvents(adk))
    /\ UNCHANGED <<kind, newArgs, base, uuids, acceptVars, encVars, handlerVars, lockVars>>

ADKErrorRunOp(err) ==
    /\ ADKEnabled
    /\ adk' = [adk EXCEPT !.messageStarted = FALSE]
    /\ Returns([op |-> "ErrorRun", err |-> err],
               (IF adk.messageStarted
                  THEN <<TextMessageEnd(adk.currentMessageID)>> ELSE <<>>)
               \o <<RunError("", adk.runID, err)>>)
    /\ UNCHANGED <<kind, newArgs, base, uuids, acceptVars, encVars, handlerVars, lockVars>>

ADKErrorRun == \E err \in {"boom"} : ADKErrorRunOp(err)

ConvertEventOp(adkEvent) ==
    LET s == ConvertEventResult(adk, uuids, adkEvent)
    IN  /\ ADKEnabled
        /\ adk' = s.c
        /\ uuids' = s.n
        /\ Returns([op |-> "ConvertEvent", adkEvent |-> adkEvent], s.ev)
        /\ UNCHANGED <<kind, newArgs, base, acceptVars, encVars, handlerVars, lockVars>>

ConvertEvent ==
    /\ ADKEnabled
    /\ \E shape \in EventShapes,
          parts \in SeqsUpTo(PartsIn, MaxADKOps - WorkDone(trace)) :
           ConvertEventOp([Author |-> shape[1], Parts |-> parts, Actions |-> shape[2]])

ADKNext ==
    \/ ADKStartRun
    \/ ADKFinishRun
    \/ ADKErrorRun
    \/ ConvertEvent

----------------------------------------------------------------------------
(* Specification of the converters *)

InitBase ==
    \E ids \in NewArgsIn :
      LET t == ids[1]
          r == ids[2]
      IN
        /\ kind = "base"
        /\ newArgs = [threadID |-> t, runID |-> r]
        /\ base = NewBaseConverter(t, r)
        /\ adk = NoConverter
        /\ uuids = (IF t = "" THEN 1 ELSE 0) + (IF r = "" THEN 1 ELSE 0)

OptionsIn == {Options(raw, step, activity) : raw, step, activity \in BOOLEAN}

InitADK ==
    \E ids \in NewArgsIn \ {<<"", "r1">>}, options \in OptionsIn :
      LET t == ids[1]
          r == ids[2]
      IN
        /\ kind = "adk"
        /\ newArgs = [threadID |-> t, runID |-> r]
        /\ base = NoConverter
        /\ adk = NewADKConverter(t, r, options)
        /\ uuids = (IF t = "" THEN 1 ELSE 0) + (IF r = "" THEN 1 ELSE 0)

Init ==
    /\ (InitBase \/ InitADK)
    /\ ret = <<>>
    /\ stream = <<>>
    /\ trace = <<>>
    /\ accept = <<>>
    /\ contentType = ""
    /\ NoEncoder
    /\ NoRequest
    /\ Unlocked

Next == BaseNext \/ ADKNext

Spec == Init /\ [][Next]_vars

----------------------------------------------------------------------------
(* Concurrent callers of one converter.  Every goroutine makes one call at *)
(* a time; a call is the steps of its Go body: c.mu.Lock(), the test of    *)
(* c.messageStarted with what its branch reads, the remaining assignments  *)
(* and reads, and the return, at which the deferred c.mu.Unlock() runs.    *)
(* handleThought takes no lock.  A read without the mutex that races with  *)
(* a write is a data race: it may yield the old value, the new one or a    *)
(* torn string header.                                                     *)

\* a goroutine enters StartMessage, StartToolCall, FinishRun, ErrorRun or
\* AddMessageContent of the BaseConverter, or ConvertEvent of the
\* ADKConverter with an event of one text or one thought part
GoCall ==
    \E g \in Goroutines :
      \E c \in IF kind = "base"
                 THEN {[op |-> "StartMessage", arg |-> "assistant"],
                       [op |-> "FinishRun", arg |-> ""],
                       [op |-> "ErrorRun", arg |-> "boom"],
                       [op |-> "AddMessageContent", arg |-> "hi"]}
                      \cup {[op |-> "StartToolCall", arg |-> id] : id \in ToolCallIDs}
                 ELSE {[op |-> "handleTextPart", arg |-> "Hello"],
                       [op |-> "handleThought", arg |-> "hmm"]} :
        LET part == IF c.op = "handleThought"
                      THEN ThoughtPart(c.arg) ELSE TextPart(c.arg)
            adkEvent == [Author |-> "model", Parts |-> <<part>>,
                         Actions |-> NoActions]
        IN  /\ gor[g].pc = "idle"
            /\ Len(trace) + Cardinality({h \in Goroutines : gor[h].pc # "idle"})
                  < MaxCalls
            /\ gor' = [gor EXCEPT ![g] =
                         [pc |-> IF c.op = "handleThought" THEN "thought" ELSE "lock",
                          op |-> c.op, arg |-> c.arg, br |-> FALSE, old |-> "",
                          ev |-> IF kind = "adk" /\ adk.options.IncludeRawEvents
                                   THEN <<Raw(adkEvent)>> ELSE <<>>]]
            /\ UNCHANGED <<convVars, mu, raced, acceptVars, encVars, handlerVars>>

GoLockNoWait ==
    \E g \in Goroutines :
        /\ gor[g].pc = "lock"
        /\ mu' = g
        /\ gor' = [gor EXCEPT ![g].pc = "check"]
        /\ UNCHANGED <<convVars, raced, acceptVars, encVars, handlerVars>>

\* c.mu.Lock(): waits until the mutex is free
GoLock ==
    \E g \in Goroutines :
        /\ gor[g].pc = "lock"
        /\ mu = ""
        /\ mu' = g
        /\ gor' = [gor EXCEPT ![g].pc = "check"]
        /\ UNCHANGED <<convVars, raced, acceptVars, encVars, handlerVars>>

\* the first statements of the body.  BaseConverter: "if toolCallID == ''"
\* of StartToolCall, then "if c.messageStarted { events = append(events,
\* TextMessageEnd{MessageID: c.currentMessageID}) }"; AddMessageContent
\* only reads the id.  handleTextPart: "if !c.messageStarted {
\* c.currentMessageID = events.GenerateMessageID()"
GoCheck ==
    \E g \in Goroutines :
      LET f == gor[g]
          blank == f.op = "StartToolCall" /\ f.arg = ""
      IN  /\ f.pc = "check"
          /\ raced' = (raced \/ mu # g)
          /\ CASE f.op = "handleTextPart" ->
                    /\ adk' = IF adk.messageStarted THEN adk
                              ELSE [adk EXCEPT !.currentMessageID = UUID(uuids + 1)]
                    /\ uuids' = IF adk.messageStarted THEN uuids ELSE uuids + 1
                    /\ gor' = [gor EXCEPT ![g] =
                                 [f EXCEPT !.pc = "update",
                                           !.br = ~adk.messageStarted,
                                           !.old = adk.currentMessageID]]
                    /\ base' = base
               [] f.op = "AddMessageContent" ->
                    /\ gor' = [gor EXCEPT ![g] =
                                 [f EXCEPT !.pc = "unlock",
                                           !.ev = <<TextMessageContent(
                                                      base.currentMessageID, f.arg)>>]]
                    /\ UNCHANGED <<base, adk, uuids>>
               [] OTHER ->
                    /\ uuids' = IF blank THEN uuids + 1 ELSE uuids
                    /\ gor' = [gor EXCEPT ![g] =
                                 [f EXCEPT !.pc = "update",
                                           !.arg = IF blank THEN UUID(uuids + 1) ELSE f.arg,
                                           !.br = base.messageStarted,
                                           !.ev = IF base.messageStarted
                                                    THEN <<TextMessageEnd(
                                                             base.currentMessageID)>>
                                                    ELSE <<>>]]
                    /\ UNCHANGED <<base, adk>>
          /\ UNCHANGED <<kind, newArgs, ret, stream, trace, mu, acceptVars,
                         encVars, handlerVars>>

\* the rest of the body: the assignments to the converter's fields and the
\* event that ends the result
GoUpdate ==
    \E g \in Goroutines :
      LET f == gor[g]
          closedBase == [base EXCEPT !.messageStarted = IF f.br THEN FALSE ELSE @]
      IN  /\ f.pc = "update"
          /\ raced' = (raced \/ mu # g)
          /\ CASE f.op = "StartMessage" ->
                    /\ base' = [base EXCEPT !.currentMessageID = UUID(uuids + 1),
                                            !.messageStarted = TRUE]
                    /\ uuids' = uuids + 1
                    /\ gor' = [gor EXCEPT ![g] =
                                 [f EXCEPT !.pc = "unlock",
                                           !.ev = f.ev \o <<TextMessageStart(
                                                              UUID(uuids + 1), f.arg)>>]]
                    /\ adk' = adk
               [] f.op = "FinishRun" ->
                    /\ base' = closedBase
                    /\ gor' = [gor EXCEPT ![g] =
                                 [f EXCEPT !.pc = "unlock",
                                           !.ev = f.ev \o <<RunFinished(
                                                              base.threadID, base.runID)>>]]
                    /\ UNCHANGED <<adk, uuids>>
               [] f.op = "ErrorRun" ->
                    /\ base' = closedBase
                    /\ gor' = [gor EXCEPT ![g] =
                                 [f EXCEPT !.pc = "unlock",
                                           !.ev = f.ev \o <<RunError(
                                                              base.threadID, base.runID,
                                                              f.arg)>>]]
                    /\ UNCHANGED <<adk, uuids>>
               [] f.op = "StartToolCall" ->
                    /\ base' = [closedBase EXCEPT
                                  !.activeToolCalls =
                                      MapPut(@, f.arg, toolCallState(f.arg, "search"))]
                    /\ gor' = [gor EXCEPT ![g] =
                                 [f EXCEPT !.pc = "unlock",
                                           !.ev = f.ev \o <<ToolCallStart(
                                                              f.arg, "search",
                                                              base.currentMessageID)>>]]
                    /\ UNCHANGED <<adk, uuids>>
               [] f.op = "handleTextPart" ->
                    /\ adk' = [adk EXCEPT !.messageStarted = IF f.br THEN TRUE ELSE @]
                    /\ gor' = [gor EXCEPT ![g] =
                                 [f EXCEPT !.pc = "unlock",
                                           !.ev = f.ev
                                              \o (IF f.br
                                                    THEN <<TextMessageStart(
                                                             adk.currentMessageID,
                                                             "assistant")>>
                                                    ELSE <<>>)
                                              \o <<TextMessageContent(
                                                     adk.currentMessageID, f.arg)>>]]
                    /\ UNCHANGED <<base, uuids>>
          /\ UNCHANGED <<kind, newArgs, ret, stream, trace, mu, acceptVars,
                         encVars, handlerVars>>

\* handleThought, which never locks: with EmitActivityEvents it reads
\* c.currentMessageID, whatever another goroutine is doing to it
GoThought ==
    \E g \in Goroutines :
      LET f == gor[g]
          writers == {h \in Goroutines : /\ gor[h].op = "handleTextPart"
                                         /\ gor[h].pc = "update"
                                         /\ gor[h].br}
          seen == IF adk.options.EmitActivityEvents /\ writers # {}
                    THEN {adk.currentMessageID, "torn"}
                         \cup {gor[h].old : h \in writers}
                    ELSE {adk.currentMessageID}
      IN  /\ f.pc = "thought"
          /\ raced' = (raced \/ adk.options.EmitActivityEvents)
          /\ \E id \in seen :
                gor' = [gor EXCEPT ![g] =
                          [f EXCEPT !.pc = "unlock",
                                    !.ev = handleThought(
                                              [c |-> [adk EXCEPT !.currentMessageID = id],
                                               n |-> uuids, ev |-> f.ev],
                                              [Author |-> "model"], f.arg).ev]]
          /\ UNCHANGED <<convVars, mu, acceptVars, encVars, handlerVars>>

\* the call returns its events; the deferred c.mu.Unlock() of a call that
\* locked releases the mutex
GoReturn ==
    \E g \in Goroutines :
      LET f == gor[g]
      IN  /\ f.pc = "unlock"
          /\ mu' = IF mu = g THEN "" ELSE mu
          /\ Returns([op |-> IF kind = "adk" THEN "ConvertEvent" ELSE f.op,
                      g |-> g, arg |-> f.arg], f.ev)
          /\ gor' = [gor EXCEPT ![g] =
                       [pc |-> "idle", op |-> "", arg |-> "", br |-> FALSE,
                        old |-> "", ev |-> <<>>]]
          /\ UNCHANGED <<kind, newArgs, base, adk, uuids, raced, acceptVars,
                         encVars, handlerVars>>

NextLock ==
    \/ GoCall
    \/ GoLock
    \/ GoCheck
    \/ GoUpdate
    \/ GoThought
    \/ GoReturn

SpecLock == Init /\ [][NextLock]_vars

----------------------------------------------------------------------------
(* ParseAcceptHeader, encoder.go *)

\* An Accept value is the list of its comma-separated elements; the empty
\* list is the empty string.  strings.Contains(accept, t) holds when t is
\* a substring of the value: of one of its elements, as no media type
\* below contains a comma.
SSEType == "text/event-stream"
NDJSONType == "application/x-ndjson"
JSONType == "application/json"

AcceptElements ==
    {"text/event-stream", "application/x-ndjson", "application/json",
     "application/json;q=0.9", "*/*", "text/html"}

\* the media types that are substrings of an element
SubstringsOf(element) ==
    CASE element = "text/event-stream" -> {SSEType}
      [] element = "application/x-ndjson" -> {NDJSONType}
      [] element = "application/json" -> {JSONType}
      [] element = "application/json;q=0.9" -> {JSONType}
      [] OTHER -> {}

Contains(acc, t) == \E i \in 1..Len(acc) : t \in SubstringsOf(acc[i])

ParseAcceptHeaderNDJSONFirst(acc) ==
    IF acc = <<>> THEN SSEType
    ELSE CASE Contains(acc, NDJSONType) -> NDJSONType
           [] Contains(acc, JSONType) -> JSONType
           [] OTHER -> SSEType

ParseAcceptHeaderDefaultJSON(acc) ==
    IF acc = <<>> THEN SSEType
    ELSE CASE Contains(acc, SSEType) -> SSEType
           [] Contains(acc, NDJSONType) -> NDJSONType
           [] Contains(acc, JSONType) -> JSONType
           [] OTHER -> JSONType

ParseAcceptHeader(acc) ==
    IF acc = <<>> THEN SSEType
    ELSE CASE Contains(acc, SSEType) -> SSEType
           [] Contains(acc, NDJSONType) -> NDJSONType
           [] Contains(acc, JSONType) -> JSONType
           [] OTHER -> SSEType

ParseAccept ==
    /\ \E acc \in SeqsUpTo(AcceptElements, MaxAccept) :
          /\ accept' = acc
          /\ contentType' = ParseAcceptHeader(acc)
    /\ UNCHANGED <<convVars, encVars, handlerVars, lockVars>>

InitAccept ==
    /\ kind = "none"
    /\ newArgs = [threadID |-> "", runID |-> ""]
    /\ base = NoConverter
    /\ adk = NoConverter
    /\ uuids = 0
    /\ ret = <<>>
    /\ stream = <<>>
    /\ trace = <<>>
    /\ accept = <<>>
    /\ contentType = ParseAcceptHeader(<<>>)
    /\ NoEncoder
    /\ NoRequest
    /\ Unlocked

NextAccept == ParseAccept

SpecAccept == InitAccept /\ [][NextAccept]_vars

----------------------------------------------------------------------------
(* Encoders, encoder.go.  The writer is an io.Writer whose Write either    *)
(* takes the whole frame ("ok"), fails having taken nothing ("fail") or    *)
(* fails having taken part of it ("torn"); wire lists what it has taken.   *)
(* The flusher is present when the http.ResponseWriter is an http.Flusher. *)

\* the converters and the negotiation are not part of the run
NoConv ==
    /\ kind = "none"
    /\ newArgs = [threadID |-> "", runID |-> ""]
    /\ base = NoConverter
    /\ adk = NoConverter
    /\ uuids = 0
    /\ ret = <<>>
    /\ stream = <<>>
    /\ trace = <<>>
    /\ accept = <<>>
    /\ contentType = ""

\* a value encoding/json cannot marshal (a channel, a func) held in a field
\* of type any
Unsupported == "chan"

\* types.go Raw: an event with a Data field of type any
RawEvent(data) == [Type |-> "RAW", Data |-> data]

\* Event.ToJSON: json.Marshal of the event struct
ToJSON(evt) ==
    IF "Data" \in DOMAIN evt /\ evt.Data = Unsupported
      THEN [data |-> <<>>, err |-> "json: unsupported type"]
      ELSE [data |-> <<"json", evt>>, err |-> ""]

\* the bytes of one frame: "data: %s\n\n" for SSE, "%s\n" for NDJSON
Frame(format, data) ==
    IF format = "sse" THEN <<"data: ", data, "\n\n">> ELSE <<data, "\n">>

\* what a failed Write may leave on the wire: the beginning of a frame
Torn == <<"torn">>

WriteOutcomes == {"ok", "fail", "torn"}

\* the transport as the encoder sees it
Transport == [wire |-> wire, flushed |-> flushed, flushCount |-> flushCount]

\* fmt.Fprintf(writer, ...) of some bytes, with the outcome of the Write
Write(t, bytes, outcome) ==
    CASE outcome = "ok" -> [t EXCEPT !.wire = Append(@, bytes)]
      [] outcome = "torn" -> [t EXCEPT !.wire = Append(@, Torn)]
      [] OTHER -> t

\* flusher.Flush(): everything written so far is pushed out
FlushNow(t) == [t EXCEPT !.flushed = Len(t.wire), !.flushCount = @ + 1]

EncodeNoFlush(e, t, evt, outcome) ==
    LET j == ToJSON(evt)
    IN  IF j.err # "" THEN [t |-> t, err |-> "failed to marshal event"]
        ELSE IF outcome # "ok"
          THEN [t |-> Write(t, Frame(e.format, j.data), outcome),
                err |-> "failed to write event"]
        ELSE [t |-> Write(t, Frame(e.format, j.data), outcome), err |-> ""]

\* SSE.Encode and JSON.Encode: the new transport and the error returned
Encode(e, t, evt, outcome) ==
    LET j == ToJSON(evt)
    IN  IF j.err # "" THEN [t |-> t, err |-> "failed to marshal event"]
        ELSE IF outcome # "ok"
          THEN [t |-> Write(t, Frame(e.format, j.data), outcome),
                err |-> "failed to write event"]
        ELSE LET written == Write(t, Frame(e.format, j.data), outcome)
             IN  [t |-> IF e.flusher THEN FlushNow(written) ELSE written,
                  err |-> ""]

RECURSIVE EncodeMultipleSkipsFailed(_, _, _, _)
EncodeMultipleSkipsFailed(e, t, evts, outcomes) ==
    IF evts = <<>> THEN [t |-> t, err |-> "", tried |-> 0]
    ELSE LET r == Encode(e, t, Head(evts), Head(outcomes))
             rest == EncodeMultipleSkipsFailed(e, r.t, Tail(evts), Tail(outcomes))
         IN  [t |-> rest.t, err |-> IF r.err # "" THEN r.err ELSE rest.err,
              tried |-> rest.tried + 1]

\* SSE.EncodeMultiple and JSON.EncodeMultiple; outcomes[i] is the outcome
\* the Write for evts[i] would have, tried the number of Encode calls made
RECURSIVE EncodeMultiple(_, _, _, _)
EncodeMultiple(e, t, evts, outcomes) ==
    IF evts = <<>> THEN [t |-> t, err |-> "", tried |-> 0]
    ELSE LET r == Encode(e, t, Head(evts), Head(outcomes))
         IN  IF r.err # "" THEN [t |-> r.t, err |-> r.err, tried |-> 1]
             ELSE LET rest == EncodeMultiple(e, r.t, Tail(evts), Tail(outcomes))
                  IN  [rest EXCEPT !.tried = @ + 1]

RECURSIVE MarshalEventsFrom(_, _)
MarshalEventsFrom(jsonEvents, evts) ==
    IF evts = <<>>
      THEN [data |-> IF jsonEvents.isNil THEN <<"null">>
                     ELSE <<"[", jsonEvents.elems, "]">>,
            err |-> ""]
      ELSE LET j == ToJSON(Head(evts))
           IN  IF j.err # "" THEN [data |-> <<>>, err |-> j.err]
               ELSE MarshalEventsFrom(
                        [isNil |-> FALSE, elems |-> Append(jsonEvents.elems, j.data)],
                        Tail(evts))

\* MarshalEvents: var jsonEvents []json.RawMessage, a nil slice, then the
\* loop; json.Marshal of a nil slice gives null
MarshalEvents(evts) == MarshalEventsFrom([isNil |-> TRUE, elems |-> <<>>], evts)

(* The encoder on its own: calls of Encode, EncodeMultiple, Flush and      *)
(* MarshalEvents in any order.  encCall is the last call, encoded the      *)
(* events whose Encode returned nil.                                       *)

EncEvents == {RunStarted("t1", "r1"), RunFinished("t1", "r1"), RawEvent(Unsupported)}

\* The run of an encoder is bounded by the events handed to it: encCall.n
\* counts a call once per event of its argument, and at least once.
EncoderEnabled == encoder.format # "none" /\ hkind = "none" /\ encCall.n < MaxEncode

Size(evts) == IF evts = <<>> THEN 1 ELSE Len(evts)

\* the Write outcomes of a call: all succeed (failAt = 0) or the failAt-th
\* Write fails; no Write is made after a failed one
OutcomesFor(n, failAt, how) == [i \in 1..n |-> IF i = failAt THEN how ELSE "ok"]

SetTransport(t) ==
    /\ wire' = t.wire
    /\ flushed' = t.flushed
    /\ flushCount' = t.flushCount

\* The fields of an event struct as encoding/json sees them: the embedded
\* Base, then the struct's own, each with its key, its omitempty option and
\* the kind of its Go type
StructTags(type) ==
    << [field |-> "Type", key |-> "type", omitempty |-> FALSE, kind |-> "string"],
       [field |-> "Timestamp", key |-> "timestamp", omitempty |-> TRUE, kind |-> "int"],
       [field |-> "RawEvent", key |-> "rawEvent", omitempty |-> TRUE, kind |-> "any"] >>
    \o CASE type = "RUN_ERROR" ->
              << [field |-> "ThreadID", key |-> "threadId", omitempty |-> TRUE, kind |-> "string"],
                 [field |-> "RunID", key |-> "runId", omitempty |-> TRUE, kind |-> "string"],
                 [field |-> "Message", key |-> "message", omitempty |-> FALSE, kind |-> "string"],
                 [field |-> "Code", key |-> "code", omitempty |-> TRUE, kind |-> "string"] >>
         [] type = "TEXT_MESSAGE_CONTENT" ->
              << [field |-> "MessageID", key |-> "messageId", omitempty |-> FALSE, kind |-> "string"],
                 [field |-> "Delta", key |-> "delta", omitempty |-> FALSE, kind |-> "string"] >>
         [] type = "TOOL_CALL_START" ->
              << [field |-> "ToolCallID", key |-> "toolCallId", omitempty |-> FALSE, kind |-> "string"],
                 [field |-> "ToolCallName", key |-> "toolCallName", omitempty |-> FALSE, kind |-> "string"],
                 [field |-> "ParentMessageID", key |-> "parentMessageId", omitempty |-> TRUE, kind |-> "string"] >>
         [] type = "TOOL_CALL_RESULT" ->
              << [field |-> "MessageID", key |-> "messageId", omitempty |-> FALSE, kind |-> "string"],
                 [field |-> "ToolCallID", key |-> "toolCallId", omitempty |-> FALSE, kind |-> "string"],
                 [field |-> "Role", key |-> "role", omitempty |-> TRUE, kind |-> "string"],
                 [field |-> "Content", key |-> "content", omitempty |-> FALSE, kind |-> "string"] >>

\* the zero value of a Go type: what omitempty leaves out and what
\* json.Unmarshal leaves in a field whose key is absent
Zero(goKind) == CASE goKind = "string" -> "" [] goKind = "int" -> 0 [] OTHER -> Nil

MarshalJSONNoOmit(evt) ==
    LET tags == StructTags(evt.Type)
    IN  [k \in {tags[i].key : i \in 1..Len(tags)} |->
            evt[tags[CHOOSE i \in 1..Len(tags) : tags[i].key = k].field]]

\* json.Marshal(e) of an event struct: the JSON object, a function from its
\* keys to their values; an omitempty field holding its zero value has no key
MarshalJSON(evt) ==
    LET tags == StructTags(evt.Type)
        kept == {i \in 1..Len(tags) :
                    ~(tags[i].omitempty /\ evt[tags[i].field] = Zero(tags[i].kind))}
    IN  [k \in {tags[i].key : i \in kept} |->
            evt[tags[CHOOSE i \in kept : tags[i].key = k].field]]

\* json.Unmarshal of an object into the struct of its type: a field takes
\* the value of its key and stays zero when the key is absent
UnmarshalJSON(obj) ==
    LET tags == StructTags(obj.type)
    IN  [f \in {tags[i].field : i \in 1..Len(tags)} |->
            LET tag == tags[CHOOSE i \in 1..Len(tags) : tags[i].field = f]
            IN  IF tag.key \in DOMAIN obj THEN obj[tag.key] ELSE Zero(tag.kind)]

\* an event struct with its embedded Base: NewBase sets the timestamp, the
\* raw event is set by the caller or left nil
WithBase(evt, raw) == evt @@ [Timestamp |-> 1700, RawEvent |-> raw]

\* the events serialized on their own
JSONEvents ==
    {WithBase(evt, raw) :
        evt \in {[RunError(t, r, "boom") EXCEPT !.Code = code] :
                    t \in {"", "t1"}, r \in {"", "r1"}, code \in {"", "E42"}}
                \cup {TextMessageContent("m1", "hi")}
                \cup {ToolCallStart("tool-1", "search", parent) : parent \in {"", "m1"}}
                \cup {ToolCallResult("m2", "tool-1", role, "42") : role \in {"", "tool"}},
        raw \in {Nil, Ptr("adk event")}}

\* e.ToJSON() and the decoding of its result into a struct of e's type
ToJSONCall ==
    /\ EncoderEnabled
    /\ \E evt \in JSONEvents :
          encCall' = [NoCall EXCEPT !.n = encCall.n + 1, !.op = "ToJSON",
                                    !.events = <<evt>>,
                                    !.data = <<MarshalJSON(evt),
                                               UnmarshalJSON(MarshalJSON(evt))>>]
    /\ UNCHANGED <<convVars, acceptVars, encoder, wire, flushed, flushCount,
                   encoded, handlerVars, lockVars>>

EncodeCall ==
    /\ EncoderEnabled
    /\ \E evt \in EncEvents, outcome \in WriteOutcomes :
          LET r == Encode(encoder, Transport, evt, outcome)
          IN  /\ SetTransport(r.t)
              /\ encoded' = IF r.err = "" THEN Append(encoded, evt) ELSE encoded
              /\ encCall' = [NoCall EXCEPT !.n = encCall.n + 1, !.op = "Encode",
                                            !.events = <<evt>>,
                                            !.outcomes = <<outcome>>,
                                            !.err = r.err, !.tried = 1]
    /\ UNCHANGED <<convVars, acceptVars, encoder, handlerVars, lockVars>>

EncodeMultipleCall ==
    /\ EncoderEnabled
    /\ \E evts \in SeqsUpTo(EncEvents, MaxEncode - encCall.n) :
        \E failAt \in 0..Len(evts), how \in WriteOutcomes \ {"ok"} :
          LET outcomes == OutcomesFor(Len(evts), failAt, how)
              r == EncodeMultiple(encoder, Transport, evts, outcomes)
          IN  /\ SetTransport(r.t)
              /\ encoded' = encoded \o
                     SubSeq(evts, 1, IF r.err = "" THEN r.tried ELSE r.tried - 1)
              /\ encCall' = [NoCall EXCEPT !.n = encCall.n + Size(evts),
                                            !.op = "EncodeMultiple",
                                            !.events = evts,
                                            !.outcomes = outcomes,
                                            !.err = r.err, !.tried = r.tried]
    /\ UNCHANGED <<convVars, acceptVars, encoder, handlerVars, lockVars>>

\* SSE.Flush and JSON.Flush
FlushCall ==
    /\ EncoderEnabled
    /\ SetTransport(IF encoder.flusher THEN FlushNow(Transport) ELSE Transport)
    /\ encCall' = [NoCall EXCEPT !.n = encCall.n + 1, !.op = "Flush"]
    /\ UNCHANGED encoded
    /\ UNCHANGED <<convVars, acceptVars, encoder, handlerVars, lockVars>>

MarshalEventsCall ==
    /\ EncoderEnabled
    /\ \E evts \in SeqsUpTo(EncEvents, MaxEncode - encCall.n) :
          LET r == MarshalEvents(evts)
          IN  encCall' = [NoCall EXCEPT !.n = encCall.n + Size(evts),
                                        !.op = "MarshalEvents",
                                        !.events = evts,
                                        !.err = r.err, !.data = r.data]
    /\ UNCHANGED <<wire, flushed, flushCount, encoded>>
    /\ UNCHANGED <<convVars, acceptVars, encoder, handlerVars, lockVars>>

\* NewSSE(w) or NewJSON(w); the flusher is nil unless w is an http.Flusher
InitEncoder ==
    /\ NoConv
    /\ NoRequest
    /\ \E format \in {"sse", "ndjson"}, flusher \in BOOLEAN :
          encoder = [format |-> format, flusher |-> flusher]
    /\ wire = <<>>
    /\ flushed = 0
    /\ flushCount = 0
    /\ encoded = <<>>
    /\ encCall = NoCall
    /\ Unlocked

NextEncoder ==
    \/ EncodeCall
    \/ EncodeMultipleCall
    \/ FlushCall
    \/ MarshalEventsCall
    \/ ToJSONCall

SpecEncoder == InitEncoder /\ [][NextEncoder]_vars

----------------------------------------------------------------------------
(* Handler, handler.go.  One request is served.  The producer is the       *)
(* EventSource: once Run was called it sends events on its channel in any  *)
(* order and closes it at any time; eventsCh holds the events sent and not *)
(* yet received, whatever the capacity of the channel.                     *)

AcceptIn ==
    {<<>>, <<SSEType>>, <<NDJSONType>>, <<JSONType>>, <<"*/*">>,
     <<JSONType, SSEType>>}

\* r.Body: whether reading or decoding it fails, and the RunAgentInput it
\* decodes to
BodiesIn ==
    {[err |-> e, input |-> [ThreadID |-> "", RunID |-> ""]] :
        e \in {"read error", "invalid JSON"}}
    \cup {[err |-> "", input |-> [ThreadID |-> ids[1], RunID |-> ids[2]]] :
             ids \in NewArgsIn}

RequestsIn ==
    {[Method |-> m, Body |-> b, Accept |-> a] :
        m \in {"OPTIONS", "GET", "POST"}, b \in BodiesIn, a \in AcceptIn}

\* what the EventSource may send
ProducerEvents ==
    {TextMessageContent("m1", "hi"), RunFinished("t1", "r1"), RawEvent(Unsupported)}

\* handleCORS
CORSResponse ==
    [Status |-> 200,
     Header |-> ("Access-Control-Allow-Origin" :> "*")
                @@ ("Access-Control-Allow-Methods" :> "POST, OPTIONS")
                @@ ("Access-Control-Allow-Headers" :>
                        "Content-Type, Accept, Authorization, X-User-ID")]

\* http.Error(w, msg, code): the status and headers it sets
ErrorResponse(code) ==
    [Status |-> code,
     Header |-> ("Content-Type" :> "text/plain; charset=utf-8")
                @@ ("X-Content-Type-Options" :> "nosniff")]

\* SetSSEHeaders
SSEHeaders ==
    ("Content-Type" :> SSEType) @@ ("Cache-Control" :> "no-cache")
    @@ ("Connection" :> "keep-alive") @@ ("Access-Control-Allow-Origin" :> "*")
    @@ ("Access-Control-Allow-Headers" :> "Content-Type, Accept")
    @@ ("X-Accel-Buffering" :> "no")

\* the first Write on a ResponseWriter sends the header with status 200
\* unless WriteHeader was called, and so does the return of the handler
Implicit200(r) == IF r.Status = 0 THEN [r EXCEPT !.Status = 200] ELSE r

RejectedMethodOnly(req) == req.Method # "POST"

\* ServeHTTP returns before the producer is reached
Rejected(req) == req.Method # "POST" \/ req.Body.err # ""

EnsureIDsThreadOnly(input, n) ==
    [ThreadID |-> IF input.ThreadID = "" THEN UUID(n + 1) ELSE input.ThreadID,
     RunID |-> input.RunID,
     n |-> IF input.ThreadID = "" THEN n + 1 ELSE n]

\* "Ensure IDs exist": blank ids are replaced by generated ones
EnsureIDs(input, n) ==
    LET g == IF input.ThreadID = "" THEN n + 1 ELSE n
    IN  [ThreadID |-> IF input.ThreadID = "" THEN UUID(n + 1) ELSE input.ThreadID,
         RunID |-> IF input.RunID = "" THEN UUID(g + 1) ELSE input.RunID,
         n |-> IF input.RunID = "" THEN g + 1 ELSE g]

ServeHTTPOp(req, flusher) ==
    LET ids == EnsureIDs(req.Body.input, uuids)
        ct == ParseAcceptHeader(req.Accept)
        run == ~Rejected(req)
    IN  /\ hkind = "Handler"
        /\ hpc = "idle"
        /\ request' = req
        /\ IF req.Method = "OPTIONS"
             THEN resp' = CORSResponse /\ wire' = wire
           ELSE IF req.Method # "POST"
             THEN /\ resp' = ErrorResponse(405)
                  /\ wire' = Append(wire, <<"Method not allowed", "\n">>)
           ELSE IF req.Body.err = "read error"
             THEN /\ resp' = ErrorResponse(400)
                  /\ wire' = Append(wire, <<"Failed to read request body", "\n">>)
           ELSE IF req.Body.err # ""
             THEN /\ resp' = ErrorResponse(400)
                  /\ wire' = Append(wire, <<"Invalid JSON", "\n">>)
           ELSE IF ct = SSEType
             THEN resp' = [Status |-> 0, Header |-> SSEHeaders] /\ wire' = wire
           ELSE resp' = NoResponse /\ wire' = wire
        /\ hpc' = IF ~run THEN "done" ELSE IF ct = SSEType THEN "sse" ELSE "json"
        /\ runCalls' = IF run
                         THEN Append(runCalls, [ThreadID |-> ids.ThreadID,
                                                RunID |-> ids.RunID])
                         ELSE runCalls
        /\ uuids' = IF run THEN ids.n ELSE uuids
        /\ accept' = IF run THEN req.Accept ELSE accept
        /\ contentType' = IF run THEN ct ELSE contentType
        /\ encoder' = IF run /\ ct = SSEType
                        THEN [format |-> "sse", flusher |-> flusher] ELSE encoder
        /\ UNCHANGED <<kind, newArgs, base, adk, ret, stream, trace, flushed,
                       flushCount, encoded, encCall, hkind, sent, eventsCh,
                       closed, consumed, allEvents,
                   sessionCalls, cancelled, lockVars>>

ServeHTTP == \E req \in RequestsIn, flusher \in BOOLEAN : ServeHTTPOp(req, flusher)

\* the producer: ch <- evt
ProducerSend ==
    /\ hkind = "Handler"
    /\ runCalls # <<>>
    /\ ~closed
    /\ Len(sent) < MaxEvents
    /\ \E evt \in ProducerEvents :
          /\ sent' = Append(sent, evt)
          /\ eventsCh' = Append(eventsCh, evt)
    /\ UNCHANGED <<convVars, acceptVars, encVars, hkind, request, resp, hpc,
                   runCalls, closed, consumed, allEvents,
                   sessionCalls, cancelled, lockVars>>

\* the producer: close(ch)
ProducerClose ==
    /\ hkind = "Handler"
    /\ runCalls # <<>>
    /\ ~closed
    /\ closed' = TRUE
    /\ UNCHANGED <<convVars, acceptVars, encVars, hkind, request, resp, hpc,
                   runCalls, sent, eventsCh, consumed, allEvents,
                   sessionCalls, cancelled, lockVars>>

ReceiveNewest(ch) == [evt |-> ch[Len(ch)], rest |-> SubSeq(ch, 1, Len(ch) - 1)]

\* evt := <-events
Receive(ch) == [evt |-> Head(ch), rest |-> Tail(ch)]

AfterEncodeGoOn(err) == "sse"

\* the loop of handleSSE goes on after an Encode, or the handler returns
AfterEncode(err) == IF err = "" THEN "sse" ELSE "done"

\* one iteration of the loop of handleSSE, or its end on a closed channel
HandleSSE ==
    /\ hkind = "Handler"
    /\ hpc = "sse"
    /\ \/ /\ eventsCh # <<>>
          /\ \E outcome \in WriteOutcomes :
               LET rcv == Receive(eventsCh)
                   r == Encode(encoder, Transport, rcv.evt, outcome)
               IN  /\ eventsCh' = rcv.rest
                   /\ consumed' = Append(consumed, rcv.evt)
                   /\ SetTransport(r.t)
                   /\ encCall' = [NoCall EXCEPT !.n = encCall.n + 1,
                                                 !.op = "Encode",
                                                 !.events = <<rcv.evt>>,
                                                 !.outcomes = <<outcome>>,
                                                 !.err = r.err, !.tried = 1]
                   /\ hpc' = AfterEncode(r.err)
                   /\ resp' = IF ToJSON(rcv.evt).err = "" \/ hpc' = "done"
                                THEN Implicit200(resp) ELSE resp
       \/ /\ eventsCh = <<>>
          /\ closed
          /\ hpc' = "done"
          /\ resp' = Implicit200(resp)
          /\ UNCHANGED <<wire, flushed, flushCount, encCall, eventsCh, consumed>>
    /\ UNCHANGED <<convVars, acceptVars, encoder, encoded, hkind, request,
                   runCalls, sent, closed, allEvents,
                   sessionCalls, cancelled, lockVars>>

\* the collecting loop of handleJSON, then MarshalEvents and the one Write
HandleJSON ==
    /\ hkind = "Handler"
    /\ hpc = "json"
    /\ \/ /\ eventsCh # <<>>
          /\ LET rcv == Receive(eventsCh)
             IN  /\ eventsCh' = rcv.rest
                 /\ consumed' = Append(consumed, rcv.evt)
                 /\ allEvents' = Append(allEvents, rcv.evt)
          /\ UNCHANGED <<wire, resp, hpc>>
       \/ /\ eventsCh = <<>>
          /\ closed
          /\ hpc' = "done"
          /\ LET m == MarshalEvents(allEvents)
             IN  IF m.err # ""
                   THEN /\ resp' = ErrorResponse(500)
                        /\ wire' = Append(wire, <<"Failed to marshal events", "\n">>)
                   ELSE /\ resp' = [Status |-> 200,
                                    Header |-> ("Content-Type" :> JSONType)]
                        /\ \E outcome \in WriteOutcomes :
                              wire' = Write(Transport, m.data, outcome).wire
          /\ UNCHANGED <<eventsCh, consumed, allEvents>>
    /\ UNCHANGED <<convVars, acceptVars, encoder, flushed, flushCount, encoded,
                   encCall, hkind, request, runCalls, sent, closed,
                   sessionCalls, cancelled, lockVars>>

----------------------------------------------------------------------------
(* ADKHandler, adapter.go.  The producer is runner.Run, an iterator the    *)
(* handler pulls: each pull yields an ADK event, yields an error, or ends. *)
(* The SDK's SSEWriter is outside the repository: WriteEvent writes the    *)
(* event as one "data: ...\n\n" frame and returns the error of the Write, *)
(* WriteErrorEvent does so for a RunError carrying the run id.             *)

\* what runner.Run may yield
RunnerEvents ==
    {[Author |-> "model", Parts |-> <<part>>, Actions |-> NoActions] :
        part \in {TextPart("Hello"), FunctionCallPart("", "search", Ptr("{}"))}}

\* outcomes of sessionService.Get and Create
SessionsIn == {"found", "created", "create fails"}

ensureSessionAlwaysCreates(session) ==
    [calls |-> <<[op |-> "Get", ok |-> session = "found"],
                 [op |-> "Create", ok |-> session # "create fails"]>>,
     err |-> IF session = "create fails" THEN "failed to create session" ELSE ""]

\* ensureSession: Get, and Create when Get fails; nil when the session is
\* found or created.  calls are the calls made on the session service.
ensureSession(session) ==
    IF session = "found"
      THEN [calls |-> <<[op |-> "Get", ok |-> TRUE]>>, err |-> ""]
      ELSE [calls |-> <<[op |-> "Get", ok |-> FALSE],
                        [op |-> "Create", ok |-> session = "created"]>>,
            err |-> IF session = "created" THEN ""
                    ELSE "failed to create session"]

\* ADKHandler.ServeHTTP streams for these Accept values, buffers otherwise
ADKStreams(acc) == acc = <<>> \/ acc = <<SSEType>> \/ acc = <<"*/*">>

\* the headers handleSSE sets
ADKSSEHeaders ==
    ("Content-Type" :> SSEType) @@ ("Cache-Control" :> "no-cache")
    @@ ("Connection" :> "keep-alive") @@ ("Access-Control-Allow-Origin" :> "*")
    @@ ("X-Accel-Buffering" :> "no")

\* a run of WriteEvent calls, each followed by a Flush when the writer is
\* an http.Flusher, up to the first failing one
WriteEvents(e, evts, failAt, how) ==
    EncodeMultiple(e, Transport, evts, OutcomesFor(Len(evts), failAt, how))

\* writeJSONEvents: events that fail to serialize are skipped
writeJSONEvents(evts) ==
    LET ok == SelectSeq(evts, LAMBDA evt : ToJSON(evt).err = "")
    IN  IF ok = <<>> THEN <<"null", "\n">>
        ELSE <<"[", [i \in 1..Len(ok) |-> ToJSON(ok[i]).data], "]", "\n">>

ADKServeHTTPOp(req, flusher, session) ==
    LET ids == EnsureIDs(req.Body.input, uuids)
        run == ~Rejected(req)
        conv == NewADKConverter(ids.ThreadID, ids.RunID, Options(FALSE, FALSE, FALSE))
        started == <<RunStarted(conv.threadID, conv.runID)>>
        ensured == ensureSession(session)
        failed == <<RunError("", ids.RunID, ensured.err)>>
        sessionErr == ensured.err # ""
    IN  /\ hkind = "ADKHandler"
        /\ hpc = "idle"
        /\ request' = req
        /\ encoder' = IF run /\ ADKStreams(req.Accept)
                        THEN [format |-> "sse", flusher |-> flusher] ELSE encoder
        /\ uuids' = IF run THEN ids.n ELSE uuids
        /\ adk' = IF run THEN conv ELSE adk
        /\ IF req.Method = "OPTIONS"
             THEN /\ resp' = [CORSResponse EXCEPT
                                !.Header["Access-Control-Allow-Headers"] =
                                    "Content-Type, Accept, Authorization"]
                  /\ hpc' = "done"
                  /\ UNCHANGED <<wire, flushed, flushCount, encCall, runCalls,
                                 allEvents, sessionCalls>>
           ELSE IF ~run
             THEN /\ resp' = ErrorResponse(IF req.Method # "POST" THEN 405
                                           ELSE 400)
                  /\ wire' = Append(wire, <<IF req.Method # "POST"
                                              THEN "Method not allowed"
                                              ELSE "Invalid JSON", "\n">>)
                  /\ hpc' = "done"
                  /\ UNCHANGED <<flushed, flushCount, encCall, runCalls, allEvents,
                                 sessionCalls>>
           ELSE IF ADKStreams(req.Accept)
             THEN \E failAt \in 0..2, how \in WriteOutcomes \ {"ok"} :
                    LET evts == IF sessionErr THEN started \o failed ELSE started
                        r == WriteEvents([format |-> "sse", flusher |-> flusher], evts,
                                         IF failAt > Len(evts) THEN 0 ELSE failAt,
                                         how)
                    IN  /\ resp' = [Status |-> 200, Header |-> ADKSSEHeaders]
                        /\ SetTransport(r.t)
                        /\ encCall' = [NoCall EXCEPT !.n = encCall.n + 1,
                                                      !.op = "WriteEvent",
                                                      !.events = evts,
                                                      !.err = r.err,
                                                      !.tried = r.tried]
                        /\ hpc' = IF r.err # "" \/ sessionErr THEN "done" ELSE "sse"
                        /\ runCalls' =
                              IF hpc' = "sse"
                                THEN Append(runCalls, [userID |-> "default-user",
                                                       sessionID |-> ids.ThreadID])
                                ELSE runCalls
                        /\ sessionCalls' = IF failAt = 1 THEN <<>> ELSE ensured.calls
                        /\ UNCHANGED allEvents
           ELSE /\ allEvents' = IF sessionErr THEN started \o failed ELSE started
                /\ hpc' = IF sessionErr THEN "done" ELSE "json"
                /\ resp' = IF sessionErr
                             THEN [Status |-> 200,
                                   Header |-> ("Content-Type" :> JSONType)]
                             ELSE resp
                /\ wire' = IF sessionErr
                             THEN Append(wire, writeJSONEvents(allEvents'))
                             ELSE wire
                /\ runCalls' =
                      IF sessionErr THEN runCalls
                      ELSE Append(runCalls, [userID |-> "default-user",
                                             sessionID |-> ids.ThreadID])
                /\ sessionCalls' = ensured.calls
                /\ UNCHANGED <<flushed, flushCount, encCall>>
        /\ UNCHANGED <<kind, newArgs, base, ret, stream, trace, acceptVars,
                       encoded, hkind, sent, eventsCh, closed, consumed,
                       cancelled, lockVars>>

ADKServeHTTP ==
    \E req \in RequestsIn, flusher \in BOOLEAN, session \in SessionsIn :
        ADKServeHTTPOp(req, flusher, session)

AfterRunnerErrorFinish(c) ==
    (IF c.messageStarted THEN <<TextMessageEnd(c.currentMessageID)>> ELSE <<>>)
    \o <<RunFinished(c.threadID, c.runID)>>

\* what the handler emits after the loop was left on a runner error:
\* errorOccurred is set, FinishRun is not called
AfterRunnerError(c) == <<>>

\* a pull of runner.Run and what the handler does with it: the events of
\* ConvertEvent, a RunError, or the events of FinishRun
ADKPull(item) ==
    LET s == IF item.kind = "event" THEN ConvertEventResult(adk, uuids, item.adkEvent)
             ELSE [c |-> adk, n |-> uuids, ev |-> <<>>]
    IN  CASE item.kind = "event" -> [c |-> s.c, n |-> s.n, ev |-> s.ev]
          [] item.kind = "error" ->
               [c |-> adk, n |-> uuids,
                ev |-> <<RunError("", adk.runID, item.err)>> \o AfterRunnerError(adk)]
          [] OTHER ->
               [c |-> [adk EXCEPT !.messageStarted = FALSE], n |-> uuids,
                ev |-> FinishRunEvents(adk)]

\* what a pull may give while the run is within its bound
PullsIn ==
    {[kind |-> "end"]}
    \cup (IF Len(sent) < MaxEvents
            THEN {[kind |-> "event", adkEvent |-> e] : e \in RunnerEvents}
                 \cup {[kind |-> "error", err |-> e] : e \in {"boom"}}
            ELSE {})

\* one iteration of the loop of handleSSE, or what follows the loop
ADKHandleSSE ==
    /\ hkind = "ADKHandler"
    /\ hpc = "sse"
    /\ \E item \in PullsIn :
         LET p == ADKPull(item)
         IN  \E failAt \in 0..Len(p.ev), how \in WriteOutcomes \ {"ok"} :
               LET r == WriteEvents(encoder, p.ev, failAt, how)
               IN  /\ adk' = p.c
                   /\ uuids' = p.n
                   /\ sent' = Append(sent, item)
                   /\ consumed' = Append(consumed, item)
                   /\ closed' = (item.kind # "event")
                   /\ SetTransport(r.t)
                   /\ encCall' = [NoCall EXCEPT !.n = encCall.n + 1,
                                                 !.op = "WriteEvent",
                                                 !.events = p.ev,
                                                 !.err = r.err,
                                                 !.tried = r.tried]
                   /\ hpc' = IF r.err # "" \/ item.kind # "event"
                               THEN "done" ELSE "sse"
    /\ UNCHANGED <<kind, newArgs, base, ret, stream, trace, acceptVars, encoder,
                   encoded, hkind, request, resp, runCalls, eventsCh, allEvents,
                   sessionCalls, cancelled, lockVars>>

\* one iteration of the loop of handleJSON, or what follows the loop
ADKHandleJSON ==
    /\ hkind = "ADKHandler"
    /\ hpc = "json"
    /\ \E item \in PullsIn :
         LET p == ADKPull(item)
         IN  /\ adk' = p.c
             /\ uuids' = p.n
             /\ sent' = Append(sent, item)
             /\ consumed' = Append(consumed, item)
             /\ closed' = (item.kind # "event")
             /\ allEvents' = allEvents \o p.ev
             /\ hpc' = IF item.kind # "event" THEN "done" ELSE "json"
             /\ resp' = IF hpc' = "done"
                          THEN [Status |-> 200,
                                Header |-> ("Content-Type" :> JSONType)]
                          ELSE resp
             /\ wire' = IF hpc' = "done"
                          THEN Append(wire, writeJSONEvents(allEvents'))
                          ELSE wire
    /\ UNCHANGED <<kind, newArgs, base, ret, stream, trace, acceptVars, encoder,
                   flushed, flushCount, encoded, encCall, hkind, request,
                   runCalls, eventsCh, sessionCalls, cancelled, lockVars>>

\* the context of the request is done: the client went away, or the server
\* shut down.  Handler puts the request in the Context it hands to the
\* producer and ADKHandler passes r.Context() to runner.Run; no statement
\* of either handler reads it.
Cancel ==
    /\ hpc \in {"sse", "json"}
    /\ ~cancelled
    /\ cancelled' = TRUE
    /\ UNCHANGED <<convVars, acceptVars, encVars, hkind, request, resp, hpc,
                   runCalls, sent, eventsCh, closed, consumed, allEvents,
                   sessionCalls, lockVars>>

(* Specification of the handlers *)

InitHandler ==
    /\ NoConv
    /\ NoEncoder
    /\ hkind \in {"Handler", "ADKHandler"}
    /\ request = [Method |-> "", Accept |-> <<>>,
                 Body |-> [err |-> "", input |-> [ThreadID |-> "", RunID |-> ""]]]
    /\ resp = NoResponse
    /\ hpc = "idle"
    /\ runCalls = <<>>
    /\ sent = <<>>
    /\ eventsCh = <<>>
    /\ closed = FALSE
    /\ consumed = <<>>
    /\ allEvents = <<>>
    /\ sessionCalls = <<>>
    /\ cancelled = FALSE
    /\ Unlocked

NextHandler ==
    \/ ServeHTTP
    \/ ProducerSend
    \/ ProducerClose
    \/ HandleSSE
    \/ HandleJSON
    \/ ADKServeHTTP
    \/ ADKHandleSSE
    \/ ADKHandleJSON
    \/ Cancel

SpecHandler == InitHandler /\ [][NextHandler]_vars

\* The loops of handleSSE and handleJSON are "for evt := range events": the
\* handler's goroutine is runnable whenever an event is pending or the
\* channel is closed, and the Go scheduler runs a runnable goroutine.
\* Nothing obliges the producer to send or to close.
SpecHandlerFair == SpecHandler /\ WF_vars(HandleSSE) /\ WF_vars(HandleJSON)

----------------------------------------------------------------------------
(* Vocabulary of the properties *)

LastCall == trace[Len(trace)]
OpNames(tr) == [i \in 1..Len(tr) |-> tr[i].op]

\* this step is a call of the operation named op
Called(op) == Len(trace') = Len(trace) + 1 /\ trace'[Len(trace')].op = op
CalledOn(k, op) == kind = k /\ Called(op)
Arg == trace'[Len(trace')]

IsStart(e) == e.Type = "TEXT_MESSAGE_START"
IsEnd(e) == e.Type = "TEXT_MESSAGE_END"

\* the messages a stream has started and not ended since
OpenMessages(st) ==
    {st[j].MessageID : j \in
        {i \in 1..Len(st) :
            /\ IsStart(st[i])
            /\ ~\E e \in (i + 1)..Len(st) :
                    IsEnd(st[e]) /\ st[e].MessageID = st[i].MessageID}}

\* every id an event of the stream carries
MessageIDsIn(st) ==
    {st[i].MessageID : i \in
        {j \in 1..Len(st) :
            st[j].Type \in {"TEXT_MESSAGE_START", "TEXT_MESSAGE_CONTENT",
                            "TEXT_MESSAGE_END", "TOOL_CALL_RESULT"}}}
ToolCallIDsIn(st) ==
    {st[i].ToolCallID : i \in
        {j \in 1..Len(st) :
            st[j].Type \in {"TOOL_CALL_START", "TOOL_CALL_ARGS",
                            "TOOL_CALL_END", "TOOL_CALL_RESULT"}}}

\* id was never seen by the converter or its consumer before this step
FreshID(id) ==
    /\ id # ""
    /\ id \notin MessageIDsIn(stream) \cup ToolCallIDsIn(stream)
    /\ id \notin {base.threadID, base.runID, base.currentMessageID}
    /\ id \notin DOMAIN base.activeToolCalls

\* the TextMessageEnd an operation owes to the message open before it
ClosingEvents == IF base.messageStarted
                   THEN <<TextMessageEnd(base.currentMessageID)>> ELSE <<>>

----------------------------------------------------------------------------
(* C1: at most one message is open after every call of a BaseConverter;    *)
(* StartMessage(role) returns [TextMessageEnd{m}, TextMessageStart{n,role}]*)
(* when message m is open and [TextMessageStart{n, role}] when none is,    *)
(* with n a fresh id different from m, and n is the one open message       *)
(* afterwards.                                                             *)

C1_OneOpen ==
    kind = "base" =>
        /\ Cardinality(OpenMessages(stream)) <= 1
        /\ OpenMessages(stream) =
               (IF base.messageStarted THEN {base.currentMessageID} ELSE {})

C1_StartMessageStep ==
    CalledOn("base", "StartMessage") =>
        LET n == base'.currentMessageID
        IN  /\ FreshID(n)
            /\ ret' = ClosingEvents \o <<TextMessageStart(n, Arg.role)>>
            /\ base'.messageStarted
            /\ OpenMessages(stream') = {n}

\* C1: at most one message is open after each call, and StartMessage closes
\* the open message m before opening a fresh message n, alone open afterwards
C1_StartMessage == [](C1_OneOpen) /\ [][C1_StartMessageStep]_vars

C1_Witness ==
    /\ kind = "base"
    /\ trace # <<>>
    /\ LastCall.op = "StartMessage"
    /\ Len(ret) = 2

(* C2: StartToolCall(name, id) returns a ToolCallStart as its last event,  *)
(* with toolCallId = id when id is non-blank and a fresh non-empty id when *)
(* it is blank; that id keys the new tracking entry, no key of             *)
(* activeToolCalls is ever empty; an open message m is closed by a leading *)
(* TextMessageEnd{m} and no message is open afterwards.                    *)

C2_KeysNonEmpty == kind = "base" => "" \notin DOMAIN base.activeToolCalls

C2_StartToolCallStep ==
    CalledOn("base", "StartToolCall") =>
        LET last == ret'[Len(ret')]
            id == last.ToolCallID
        IN  /\ last.Type = "TOOL_CALL_START"
            /\ last.ToolCallName = Arg.toolName
            /\ id # ""
            /\ (Arg.toolCallID # "" => id = Arg.toolCallID)
            /\ (Arg.toolCallID = "" => FreshID(id))
            /\ DOMAIN base'.activeToolCalls = DOMAIN base.activeToolCalls \cup {id}
            /\ base'.activeToolCalls[id].toolCallID = id
            /\ Len(ret') = Len(ClosingEvents) + 1
            /\ (base.messageStarted => ret'[1] = TextMessageEnd(base.currentMessageID))
            /\ ~base'.messageStarted

\* C2: StartToolCall ends with a ToolCallStart of non-empty id that keys the
\* new entry, closes the open message first, and no tracked key is empty
C2_StartToolCall == [](C2_KeysNonEmpty) /\ [][C2_StartToolCallStep]_vars

C2_Witness ==
    /\ kind = "base"
    /\ trace # <<>>
    /\ LastCall.op = "StartToolCall"
    /\ LastCall.toolCallID = ""
    /\ Len(ret) = 2
    /\ ret[2].ToolCallID \in DOMAIN base.activeToolCalls

(* C3: FinishRun returns exactly [TextMessageEnd{m}, RunFinished] when     *)
(* message m is open and exactly [RunFinished] otherwise, the RunFinished  *)
(* carrying the converter's threadId and runId; no message is open         *)
(* afterwards.  For BaseConverter and for ADKConverter.                    *)

C3_FinishRunStep ==
    /\ CalledOn("base", "FinishRun") =>
          /\ ret' = ClosingEvents \o <<RunFinished(base.threadID, base.runID)>>
          /\ ~base'.messageStarted
    /\ CalledOn("adk", "FinishRun") =>
          /\ ret' = (IF adk.messageStarted
                       THEN <<TextMessageEnd(adk.currentMessageID)>> ELSE <<>>)
                    \o <<RunFinished(adk.threadID, adk.runID)>>
          /\ ~adk'.messageStarted

\* C3: FinishRun returns [TextMessageEnd{m}, RunFinished] or [RunFinished] and
\* leaves no message open, for both converters
C3_FinishRun == [][C3_FinishRunStep]_vars

C3_Witness ==
    /\ kind = "adk"
    /\ trace # <<>>
    /\ LastCall.op = "FinishRun"
    /\ Len(ret) = 2
    /\ ret[1].Type = "TEXT_MESSAGE_END"

(* C4: ErrorRun(err) returns [TextMessageEnd{m}, RunError] when message m  *)
(* is open and exactly [RunError] otherwise; the RunError carries the      *)
(* converter's threadId and runId and err's text; no message is open       *)
(* afterwards and activeToolCalls is unchanged.                            *)

C4_ErrorRunStep ==
    CalledOn("base", "ErrorRun") =>
        /\ ret' = ClosingEvents
                  \o <<[Type |-> "RUN_ERROR", ThreadID |-> base.threadID,
                        RunID |-> base.runID, Message |-> Arg.err, Code |-> ""]>>
        /\ ~base'.messageStarted
        /\ base'.activeToolCalls = base.activeToolCalls

\* C4: ErrorRun returns [TextMessageEnd{m}]? + [RunError{threadId, runId,
\* message}], leaves no message open and activeToolCalls unchanged
C4_ErrorRun == [][C4_ErrorRunStep]_vars

C4_Witness ==
    /\ kind = "base"
    /\ trace # <<>>
    /\ LastCall.op = "ErrorRun"
    /\ Len(ret) = 2
    /\ DOMAIN base.activeToolCalls # {}

(* C5: in the concatenation of the events returned by any sequence of      *)
(* BaseConverter operations, every TextMessageEnd{m} is preceded by a      *)
(* TextMessageStart{m} not already ended, and every TextMessageStart{m} is *)
(* ended before the next TextMessageStart, ToolCallStart, RunFinished or   *)
(* RunError.                                                               *)

NoOrphanEnd(st) ==
    \A i \in 1..Len(st) :
        IsEnd(st[i]) =>
            \E j \in 1..(i - 1) :
                /\ IsStart(st[j])
                /\ st[j].MessageID = st[i].MessageID
                /\ ~\E e \in (j + 1)..(i - 1) :
                        IsEnd(st[e]) /\ st[e].MessageID = st[i].MessageID

EndedBeforeNext(st) ==
    \A j \in 1..Len(st) :
        IsStart(st[j]) =>
            \A k \in (j + 1)..Len(st) :
                st[k].Type \in {"TEXT_MESSAGE_START", "TOOL_CALL_START",
                                "RUN_FINISHED", "RUN_ERROR"} =>
                    \E e \in (j + 1)..(k - 1) :
                        IsEnd(st[e]) /\ st[e].MessageID = st[j].MessageID

\* C5: the stream of a BaseConverter has no orphan or duplicate
\* TextMessageEnd and every started message is ended before the next
\* TextMessageStart, ToolCallStart, RunFinished or RunError
C5_WellFormed == kind = "base" => NoOrphanEnd(stream) /\ EndedBeforeNext(stream)

(* C6: while message m is open AddMessageContent(text) returns exactly     *)
(* [TextMessageContent{m, text}] and changes nothing; a following          *)
(* EndMessage returns TextMessageEnd{m} and closes the message; so         *)
(* StartMessage, AddMessageContent, EndMessage, FinishRun yields           *)
(* TEXT_MESSAGE_START, TEXT_MESSAGE_CONTENT, TEXT_MESSAGE_END,             *)
(* RUN_FINISHED, the three message events with the same messageId.         *)

ScenarioB == <<"StartMessage", "AddMessageContent", "EndMessage", "FinishRun">>

C6_ContentStep ==
    /\ (CalledOn("base", "AddMessageContent") /\ base.messageStarted) =>
          /\ ret' = <<TextMessageContent(base.currentMessageID, Arg.text)>>
          /\ base' = base
          /\ uuids' = uuids
    /\ (CalledOn("base", "EndMessage") /\ base.messageStarted) =>
          /\ ret' = <<TextMessageEnd(base.currentMessageID)>>
          /\ ~base'.messageStarted

C6_ScenarioB ==
    (kind = "base" /\ OpNames(trace) = ScenarioB) =>
        /\ [i \in 1..Len(stream) |-> stream[i].Type] =
               <<"TEXT_MESSAGE_START", "TEXT_MESSAGE_CONTENT",
                 "TEXT_MESSAGE_END", "RUN_FINISHED">>
        /\ stream[1].Role = trace[1].role
        /\ stream[2].Delta = trace[2].text
        /\ stream[1].MessageID # ""
        /\ stream[2].MessageID = stream[1].MessageID
        /\ stream[3].MessageID = stream[1].MessageID

\* C6: content and end events of an open message carry its id, and scenario B
\* yields START, CONTENT, END, RUN_FINISHED with one messageId
C6_MessageContent == [](C6_ScenarioB) /\ [][C6_ContentStep]_vars

C6_Witness == kind = "base" /\ OpNames(trace) = ScenarioB

(* C7 as claimed: AddMessageContent with no message open returns a         *)
(* TextMessageContent whose messageId is empty.                            *)

\* C7 (as claimed): with no message open the content's messageId is empty
C7_Original ==
    [][(CalledOn("base", "AddMessageContent") /\ ~base.messageStarted) =>
          (Len(ret') = 1 /\ ret'[1].Type = "TEXT_MESSAGE_CONTENT"
           /\ ret'[1].MessageID = "")]_vars

(* C7 amended: AddMessageContent with no message open never fails and      *)
(* returns one TextMessageContent whose messageId is empty when no message *)
(* was ever started and otherwise is the id of the most recently started   *)
(* message, which is closed.                                               *)

LastStartedMessage(st) ==
    LET starts == {i \in 1..Len(st) : IsStart(st[i])}
    IN  IF starts = {} THEN ""
        ELSE st[CHOOSE i \in starts : \A j \in starts : j <= i].MessageID

C7_StaleContentStep ==
    (CalledOn("base", "AddMessageContent") /\ ~base.messageStarted) =>
        /\ ret' = <<TextMessageContent(LastStartedMessage(stream), Arg.text)>>
        /\ base' = base

\* C7 (amended): with no message open the content's messageId is that of the
\* most recently started message, empty only if none was ever started
C7_StaleContent == [][C7_StaleContentStep]_vars

C7_Witness ==
    /\ kind = "base"
    /\ trace # <<>>
    /\ LastCall.op = "AddMessageContent"
    /\ ~base.messageStarted
    /\ ret[1].MessageID # ""
    /\ ret[1].MessageID \notin OpenMessages(stream)

(* C8: AddToolCallResult(id, content) removes id from activeToolCalls and  *)
(* returns exactly one ToolCallResult{toolCallId = id, content, role =     *)
(* tool} with a fresh non-empty messageId; every other tracked tool call,  *)
(* the current message id and the open flag are unchanged.                 *)

C8_ResultStep ==
    CalledOn("base", "AddToolCallResult") =>
        /\ Len(ret') = 1
        /\ ret'[1] = [Type |-> "TOOL_CALL_RESULT", MessageID |-> ret'[1].MessageID,
                      ToolCallID |-> Arg.toolCallID, Role |-> "tool",
                      Content |-> Arg.content]
        /\ FreshID(ret'[1].MessageID)
        /\ DOMAIN base'.activeToolCalls = DOMAIN base.activeToolCalls \ {Arg.toolCallID}
        /\ \A k \in DOMAIN base'.activeToolCalls :
               base'.activeToolCalls[k] = base.activeToolCalls[k]
        /\ base'.currentMessageID = base.currentMessageID
        /\ base'.messageStarted = base.messageStarted

\* C8: AddToolCallResult removes id, returns one ToolCallResult with a fresh
\* messageId and role tool, and changes nothing else
C8_AddToolCallResult == [][C8_ResultStep]_vars

C8_Witness ==
    /\ kind = "base"
    /\ trace # <<>>
    /\ LastCall.op = "AddToolCallResult"
    /\ \E i \in 1..Len(stream) :
           stream[i].Type = "TOOL_CALL_START"
           /\ stream[i].ToolCallID = LastCall.toolCallID
    /\ LastCall.toolCallID \notin DOMAIN base.activeToolCalls
    /\ DOMAIN base.activeToolCalls # {}

(* C9: a converter's threadId and runId are non-empty, equal to the        *)
(* supplied values when these are not blank, and never change; StartRun    *)
(* returns exactly one RunStarted carrying them and changes no state.      *)

C9_IDsSet ==
    kind = "base" =>
        /\ base.threadID # ""
        /\ base.runID # ""
        /\ (newArgs.threadID # "" => base.threadID = newArgs.threadID)
        /\ (newArgs.runID # "" => base.runID = newArgs.runID)

C9_Step ==
    /\ base'.threadID = base.threadID
    /\ base'.runID = base.runID
    /\ CalledOn("base", "StartRun") =>
          /\ ret' = <<[Type |-> "RUN_STARTED", ThreadID |-> base.threadID,
                       RunID |-> base.runID]>>
          /\ base' = base
          /\ uuids' = uuids

\* C9: threadId and runId are non-empty, keep the supplied values and never
\* change; StartRun returns one RunStarted carrying them and changes no state
C9_RunIDs == [](C9_IDsSet) /\ [][C9_Step]_vars

C9_Witness ==
    /\ kind = "base"
    /\ newArgs.threadID = ""
    /\ newArgs.runID # ""
    /\ Len(trace) >= 2
    /\ LastCall.op = "StartRun"
    /\ ret[1].ThreadID # ""

(* C10 as claimed: an Accept value naming application/x-ndjson resolves to *)
(* the line-delimited format whatever else it names; else one naming       *)
(* application/json resolves to the buffered array; else live-push.        *)

Names(acc, t) == \E i \in 1..Len(acc) : t \in SubstringsOf(acc[i])

\* C10 (as claimed): ndjson wins over everything, then json, else live-push
C10_Original ==
    contentType =
        (IF Names(accept, NDJSONType) THEN NDJSONType
         ELSE IF Names(accept, JSONType) THEN JSONType
         ELSE SSEType)

(* C10 amended: an Accept value naming text/event-stream resolves to       *)
(* live-push whatever else it names; else one naming application/x-ndjson  *)
(* resolves to the line-delimited format regardless of position; else one  *)
(* naming application/json resolves to the buffered array; else live-push. *)

\* C10 (amended): text/event-stream wins, then ndjson, then json, else
\* live-push
C10_Negotiation ==
    /\ Names(accept, SSEType) => contentType = SSEType
    /\ (Names(accept, NDJSONType) /\ ~Names(accept, SSEType)) =>
           contentType = NDJSONType
    /\ (Names(accept, JSONType) /\ ~Names(accept, NDJSONType)
            /\ ~Names(accept, SSEType)) => contentType = JSONType
    /\ (~Names(accept, JSONType) /\ ~Names(accept, NDJSONType)
            /\ ~Names(accept, SSEType)) => contentType = SSEType

C10_Witness ==
    /\ Names(accept, NDJSONType)
    /\ Names(accept, SSEType)
    /\ accept[1] = NDJSONType
    /\ contentType = SSEType

----------------------------------------------------------------------------
\* C11: live-push is the default: ParseAcceptHeader gives text/event-stream
\* for the empty value, for the wildcard value, for any value naming
\* text/event-stream and for any value naming none of the three media types;
\* its result is always one of the three media types
C11_DefaultLivePush ==
    /\ accept = <<>> => contentType = SSEType
    /\ accept = <<"*/*">> => contentType = SSEType
    /\ Names(accept, SSEType) => contentType = SSEType
    /\ (\A t \in {SSEType, NDJSONType, JSONType} : ~Names(accept, t)) =>
           contentType = SSEType
    /\ contentType \in {SSEType, NDJSONType, JSONType}

C11_Witness ==
    /\ accept = <<"text/html", "*/*">>
    /\ contentType = SSEType

----------------------------------------------------------------------------
(* Vocabulary of the encoder properties *)

\* the step is a call of the encoder operation op
EncCalled(op) == encCall'.n # encCall.n /\ encCall'.op = op

\* the complete frames on a wire
Frames(w) == SelectSeq(w, LAMBDA x : x # Torn)

\* the frames of a list of events, one per event, in order
FramesOf(format, evts) ==
    [i \in 1..Len(evts) |-> Frame(format, ToJSON(evts[i]).data)]

\* the first event of a list whose Encode fails, 0 if none does
FirstFailure(evts, outcomes) ==
    LET failing == {i \in 1..Len(evts) :
                       ToJSON(evts[i]).err # "" \/ outcomes[i] # "ok"}
    IN  IF failing = {} THEN 0
        ELSE CHOOSE i \in failing : \A j \in failing : i <= j

\* the frames on the wire are those of the successfully encoded events
EncodedInOrder == Frames(wire) = FramesOf(encoder.format, encoded)

\* a successful Encode appends exactly the frame of its event
OneFrame ==
    wire' = Append(wire, Frame(encoder.format, ToJSON(encCall'.events[1]).data))

----------------------------------------------------------------------------
(* C12 as claimed: every successful Encode writes exactly one frame and    *)
(* then flushes the transport, so that k successful calls leave k frames   *)
(* in call order, k flushes and nothing unflushed.                         *)

\* C12 (as claimed): every successful Encode writes one frame and flushes
C12_Original ==
    [][(EncCalled("Encode") /\ encCall'.err = "") =>
          /\ OneFrame
          /\ flushCount' = flushCount + 1
          /\ flushed' = Len(wire')]_vars

(* C12 amended: each successful Encode writes exactly one frame for the    *)
(* event and, when the response writer is an http.Flusher, flushes         *)
(* immediately after that write; after k successful calls exactly k frames *)
(* are written in call order, and with a flusher nothing is left           *)
(* unflushed.  With a writer that cannot flush, Encode succeeds without    *)
(* flushing.  A failed Encode never flushes.                               *)

\* C12 (amended): every successful Encode writes one frame, and flushes
\* exactly when the writer can flush; the frames written are those of the
\* successful calls in call order
C12_EncodeFlush ==
    /\ [](encoder.format # "none" => EncodedInOrder)
    /\ [][EncCalled("Encode") =>
            IF encCall'.err = ""
              THEN /\ OneFrame
                   /\ encoder.flusher =>
                         flushCount' = flushCount + 1 /\ flushed' = Len(wire')
                   /\ ~encoder.flusher =>
                         flushCount' = flushCount /\ flushed' = flushed
              ELSE /\ Frames(wire') = Frames(wire)
                   /\ flushCount' = flushCount
                   /\ flushed' = flushed]_vars

C12_Witness ==
    /\ encCall.op = "Encode"
    /\ encCall.err = ""
    /\ encoder = [format |-> "sse", flusher |-> TRUE]
    /\ Len(encoded) = 2
    /\ wire = FramesOf("sse", encoded)
    /\ wire[2][1] = "data: "
    /\ wire[2][3] = "\n\n"
    /\ flushCount = 2
    /\ flushed = 2

----------------------------------------------------------------------------
\* C13: EncodeMultiple encodes the events in list order and stops at the
\* first event whose Encode fails: it returns that error, makes no further
\* Encode call, and the frames it wrote are those of the events before the
\* failing one
C13_EncodeMultiple ==
    [][EncCalled("EncodeMultiple") =>
          LET evts == encCall'.events
              k == FirstFailure(evts, encCall'.outcomes)
          IN  IF k = 0
                THEN /\ encCall'.err = ""
                     /\ encCall'.tried = Len(evts)
                     /\ wire' = wire \o FramesOf(encoder.format, evts)
                ELSE /\ encCall'.err =
                          (IF ToJSON(evts[k]).err # ""
                             THEN "failed to marshal event"
                             ELSE "failed to write event")
                     /\ encCall'.tried = k
                     /\ Frames(wire') = Frames(wire) \o
                            FramesOf(encoder.format, SubSeq(evts, 1, k - 1))
                     /\ Len(wire') <= Len(wire) + k]_vars

C13_Witness ==
    /\ encCall.op = "EncodeMultiple"
    /\ Len(encCall.events) = 3
    /\ encCall.err = "failed to write event"
    /\ encCall.tried = 2
    /\ Frames(wire) = FramesOf(encoder.format, SubSeq(encCall.events, 1, 1))

----------------------------------------------------------------------------
\* C14: buffered framing of a list of serializable events is the JSON array
\* of their encodings, one element per event in input order: the empty
\* array for no events, never null
C14_BufferedArray ==
    (/\ encCall.op = "MarshalEvents"
     /\ \A i \in 1..Len(encCall.events) : ToJSON(encCall.events[i]).err = "") =>
        /\ encCall.err = ""
        /\ encCall.data =
              <<"[", [i \in 1..Len(encCall.events) |->
                         ToJSON(encCall.events[i]).data], "]">>

----------------------------------------------------------------------------
(* Vocabulary of the handler properties *)

\* a request was served and it reached the producer
Running == hpc # "idle" /\ runCalls # <<>>

IsPrefix(p, q) == Len(p) <= Len(q) /\ p = SubSeq(q, 1, Len(p))

\* the events of the response body: those of the complete SSE frames, or
\* those of the one JSON array
Emitted ==
    IF encoder.format = "sse"
      THEN [i \in 1..Len(Frames(wire)) |-> Frames(wire)[i][2][2]]
    ELSE IF wire = <<>> \/ wire[1][1] # "["
      THEN <<>>
    ELSE [i \in 1..Len(wire[1][2]) |-> wire[1][2][i][2]]

TypesOf(evts) == {evts[i].Type : i \in 1..Len(evts)}

\* the step is a call of the encoder or the SDK writer whose Write failed
WriteFailed == encCall'.n # encCall.n /\ encCall'.err = "failed to write event"

----------------------------------------------------------------------------
\* C15: the producer is invoked only for a POST whose body decodes; OPTIONS
\* ends with 200, the CORS headers and no body, another non-POST method with
\* 405, an unreadable or malformed body with 400, and in these cases the
\* producer is not invoked and no event is sent, received or written
C15_Gates ==
    hpc # "idle" =>
      /\ runCalls # <<>> => request.Method = "POST" /\ request.Body.err = ""
      /\ request.Method = "OPTIONS" =>
            /\ resp.Status = 200
            /\ resp.Header["Access-Control-Allow-Origin"] = "*"
            /\ resp.Header["Access-Control-Allow-Methods"] = "POST, OPTIONS"
            /\ "Access-Control-Allow-Headers" \in DOMAIN resp.Header
            /\ wire = <<>>
      /\ request.Method \notin {"OPTIONS", "POST"} =>
            resp.Status = 405 /\ wire = << <<"Method not allowed", "\n">> >>
      /\ (request.Method = "POST" /\ request.Body.err # "") =>
            resp.Status = 400 /\ Len(wire) = 1 /\ Len(wire[1]) = 2
      /\ (request.Method # "POST" \/ request.Body.err # "") =>
            /\ hpc = "done"
            /\ runCalls = <<>>
            /\ sent = <<>>
            /\ consumed = <<>>
            /\ allEvents = <<>>
            /\ encCall = NoCall

C15_Witness ==
    /\ hkind = "Handler"
    /\ request.Method = "POST"
    /\ request.Body.err = "invalid JSON"
    /\ resp.Status = 400
    /\ runCalls = <<>>
    /\ hpc = "done"

----------------------------------------------------------------------------
\* C16: the context handed to the producer has a non-empty threadId and
\* runId: the request's own when it supplies one, a generated one otherwise
C16_ContextIDs ==
    (hkind = "Handler" /\ runCalls # <<>>) =>
      LET ctx == runCalls[1]
          input == request.Body.input
      IN  /\ Len(runCalls) = 1
          /\ ctx.ThreadID # ""
          /\ ctx.RunID # ""
          /\ input.ThreadID # "" => ctx.ThreadID = input.ThreadID
          /\ input.RunID # "" => ctx.RunID = input.RunID
          /\ input.ThreadID = "" => ctx.ThreadID \in {UUID(i) : i \in 1..uuids}
          /\ input.RunID = "" => ctx.RunID \in {UUID(i) : i \in 1..uuids}

C16_Witness ==
    /\ hkind = "Handler"
    /\ request.Body.input = [ThreadID |-> "", RunID |-> "r1"]
    /\ runCalls = <<[ThreadID |-> UUID(1), RunID |-> "r1"]>>

----------------------------------------------------------------------------
\* C17: once the request is served, the Content-Type is the negotiated
\* media type and the body is framed accordingly: SSE frames for
\* text/event-stream, JSON lines for application/x-ndjson, one JSON value
\* for application/json (events that serialize, writes that may fail)
C17_NegotiatedFraming ==
    (/\ hkind = "Handler"
     /\ Running
     /\ hpc = "done"
     /\ \A i \in 1..Len(sent) : ToJSON(sent[i]).err = "") =>
        /\ "Content-Type" \in DOMAIN resp.Header
        /\ resp.Header["Content-Type"] = contentType
        /\ contentType = SSEType =>
              IsPrefix(Frames(wire), FramesOf("sse", consumed))
        /\ contentType = NDJSONType =>
              IsPrefix(Frames(wire), FramesOf("ndjson", consumed))
        /\ contentType = JSONType =>
              Frames(wire) \in {<<>>, <<MarshalEvents(consumed).data>>}

----------------------------------------------------------------------------
\* C18: at every point of a streaming response of the generic handler the
\* frames written are those of a prefix of the events the producer sent,
\* one frame per event in the order sent: every received event but a last
\* one whose Encode failed has its frame
C18_ForwardedInOrder ==
    (hkind = "Handler" /\ encoder.format = "sse") =>
      LET k == Len(Frames(wire))
      IN  /\ IsPrefix(consumed, sent)
          /\ sent = consumed \o eventsCh
          /\ k <= Len(consumed)
          /\ Frames(wire) = FramesOf("sse", SubSeq(sent, 1, k))
          /\ hpc = "sse" => k = Len(consumed)
          /\ hpc = "done" => k >= Len(consumed) - 1

C18_Witness ==
    /\ hkind = "Handler"
    /\ hpc = "sse"
    /\ Len(sent) = 3
    /\ sent[1] # sent[2]
    /\ Frames(wire) = FramesOf("sse", SubSeq(sent, 1, 2))
    /\ eventsCh = <<sent[3]>>

----------------------------------------------------------------------------
\* C19: a step of a streaming handler in which a Write fails ends the
\* handler, having written the frames of the events before the failing one
\* only; from then on nothing is written and nothing is received from the
\* producer
C19_StopOnWriteFailure ==
    /\ [][(hkind # "none" /\ WriteFailed) =>
             /\ hpc' = "done"
             /\ Frames(wire') = Frames(wire) \o
                    FramesOf("sse", SubSeq(encCall'.events, 1, encCall'.tried - 1))
             /\ Len(wire') <= Len(wire) + encCall'.tried]_vars
    /\ [][(hkind # "none" /\ hpc = "done") =>
             /\ hpc' = "done"
             /\ wire' = wire
             /\ encCall' = encCall
             /\ consumed' = consumed
             /\ IsPrefix(eventsCh, eventsCh')]_vars

C19_Witness ==
    /\ hkind = "Handler"
    /\ hpc = "done"
    /\ encCall.err = "failed to write event"
    /\ Len(consumed) = 2
    /\ Len(Frames(wire)) = 1
    /\ eventsCh # <<>>

----------------------------------------------------------------------------
\* C20: in a response of the ADK handler, streamed or buffered, there is at
\* most one RunError, it is the last event, and no RunFinished comes with
\* it; the step in which the runner yields an error ends the handler and,
\* unless a Write fails, adds exactly the RunError to the response; nothing
\* is pulled from the runner afterwards
C20_ErrorTerminates ==
    /\ []((hkind = "ADKHandler" /\ Running) =>
            LET ev == Emitted
            IN  /\ \A i \in 1..Len(ev) : ev[i].Type = "RUN_ERROR" => i = Len(ev)
                /\ ~({"RUN_ERROR", "RUN_FINISHED"} \subseteq TypesOf(ev)))
    /\ [][(hkind = "ADKHandler" /\ sent' # sent
              /\ sent'[Len(sent')].kind = "error") =>
             /\ hpc' = "done"
             /\ encCall'.err = "" =>
                   Emitted' = (IF hpc = "sse" THEN Emitted ELSE allEvents)
                              \o <<RunError("", adk.runID, sent'[Len(sent')].err)>>]_vars
    /\ [][(hkind = "ADKHandler" /\ hpc = "done") => sent' = sent]_vars

C20_Witness ==
    /\ hkind = "ADKHandler"
    /\ hpc = "done"
    /\ Len(sent) = 2
    /\ sent[2].kind = "error"
    /\ Len(Emitted) = 4
    /\ Emitted[4].Type = "RUN_ERROR"
    /\ "RUN_FINISHED" \notin TypesOf(Emitted)

----------------------------------------------------------------------------
(* Vocabulary of the closure properties *)

\* the producer ended normally and no Write failed: the runner's iterator
\* ended, or the channel was closed and drained by a streaming Handler
NormalEnd ==
    /\ Running
    /\ hpc = "done"
    /\ closed
    /\ encCall.err = ""
    /\ hkind = "ADKHandler" => sent[Len(sent)].kind = "end"
    /\ hkind = "Handler" => encoder.format = "sse" /\ eventsCh = <<>>

TypeSeq(evts) == [i \in 1..Len(evts) |-> evts[i].Type]

\* C21 as stated, for both handlers: after a normal end the response starts
\* with RunStarted and ends with RunFinished, its only RunFinished
C21_Original ==
    NormalEnd =>
      LET ev == Emitted
      IN  /\ Len(ev) >= 2
          /\ ev[1].Type = "RUN_STARTED"
          /\ ev[Len(ev)].Type = "RUN_FINISHED"
          /\ \A i \in 1..Len(ev) : ev[i].Type = "RUN_FINISHED" => i = Len(ev)

\* C21: when the runner of the ADK handler ends and no Write fails, the
\* handler appends the events of FinishRun: a TextMessageEnd for the message
\* still open, then RunFinished; the response starts with RunStarted and
\* RunFinished is its last event.  The generic Handler has no converter: its
\* response is what the producer sent, nothing added
C21_NormalClosure ==
    /\ []((NormalEnd /\ hkind = "ADKHandler") =>
            LET ev == Emitted
            IN  /\ Len(ev) >= 2
                /\ ev[1] = RunStarted(adk.threadID, adk.runID)
                /\ ev[Len(ev)] = RunFinished(adk.threadID, adk.runID)
                /\ ~adk.messageStarted
                /\ \A i \in 1..Len(ev) :
                      ev[i].Type = "RUN_FINISHED" => i = Len(ev))
    /\ [][(/\ hkind = "ADKHandler"
           /\ sent' # sent
           /\ sent'[Len(sent')].kind = "end"
           /\ encCall'.err = "") =>
             Emitted' = (IF hpc = "sse" THEN Emitted ELSE allEvents)
                        \o (IF adk.messageStarted
                              THEN <<TextMessageEnd(adk.currentMessageID)>>
                              ELSE <<>>)
                        \o <<RunFinished(adk.threadID, adk.runID)>>]_vars
    /\ []((NormalEnd /\ hkind = "Handler") => Emitted = sent)

C21_Witness ==
    /\ hkind = "ADKHandler"
    /\ NormalEnd
    /\ Len(sent) = 2
    /\ TypeSeq(Emitted) = <<"RUN_STARTED", "TEXT_MESSAGE_START",
                            "TEXT_MESSAGE_CONTENT", "TEXT_MESSAGE_END",
                            "RUN_FINISHED">>

----------------------------------------------------------------------------
\* C22: a runner that yields one text event and then an error gives, when
\* no Write fails, RUN_STARTED, TEXT_MESSAGE_START, TEXT_MESSAGE_CONTENT,
\* TEXT_MESSAGE_END, RUN_ERROR in that order and no RUN_FINISHED
C22_ScenarioE ==
    (/\ hkind = "ADKHandler"
     /\ hpc = "done"
     /\ Len(sent) = 2
     /\ sent[1].kind = "event"
     /\ sent[1].adkEvent.Parts = <<TextPart("Hello")>>
     /\ sent[2].kind = "error"
     /\ encCall.err = "") =>
        TypeSeq(Emitted) = <<"RUN_STARTED", "TEXT_MESSAGE_START",
                             "TEXT_MESSAGE_CONTENT", "TEXT_MESSAGE_END",
                             "RUN_ERROR">>

----------------------------------------------------------------------------
\* C23: ensureSession looks the session up once and creates it, once, only
\* when the lookup failed; the runner is run only after one of the two
\* succeeded; when both failed the handler is done, the runner was never
\* run, and the response is RunStarted followed by one RunError, or a
\* prefix of the two when a Write failed
C23_SetupError ==
    (hkind = "ADKHandler" /\ hpc # "idle") =>
      LET n == Len(sessionCalls)
          both == <<RunStarted(adk.threadID, adk.runID),
                    RunError("", adk.runID, "failed to create session")>>
      IN  /\ n <= 2
          /\ n >= 1 => sessionCalls[1].op = "Get"
          /\ n = 2 => ~sessionCalls[1].ok /\ sessionCalls[2].op = "Create"
          /\ runCalls # <<>> => n >= 1 /\ sessionCalls[n].ok
          /\ (n = 2 /\ ~sessionCalls[2].ok) =>
                /\ hpc = "done"
                /\ runCalls = <<>>
                /\ sent = <<>>
                /\ IsPrefix(Emitted, both)
                /\ encCall.err = "" => Emitted = both

C23_Witness ==
    /\ hkind = "ADKHandler"
    /\ hpc = "done"
    /\ sessionCalls = <<[op |-> "Get", ok |-> FALSE],
                        [op |-> "Create", ok |-> FALSE]>>
    /\ TypeSeq(Emitted) = <<"RUN_STARTED", "RUN_ERROR">>
    /\ runCalls = <<>>

----------------------------------------------------------------------------
\* C24: once the context of the request is done the generic Handler hands
\* nothing more to the transport, whatever the producer still sends
C24_NoWriteAfterCancel ==
    [][(hkind = "Handler" /\ cancelled) => wire' = wire]_vars

----------------------------------------------------------------------------
\* C25: in the generic Handler an event that fails to serialize is skipped:
\* the stream is not ended by it, the buffered response is not replaced by
\* a 500, and after a normal end the response holds every other event in
\* the order sent
C25_SkipUnencodable ==
    /\ [][(/\ hkind = "Handler"
           /\ encCall'.n # encCall.n
           /\ encCall'.err = "failed to marshal event") =>
             hpc' = "sse" /\ wire' = wire]_vars
    /\ [](hkind = "Handler" => resp.Status # 500)
    /\ []((/\ hkind = "Handler"
           /\ Running
           /\ hpc = "done"
           /\ closed
           /\ eventsCh = <<>>
           /\ encCall.err # "failed to write event") =>
             \/ Emitted = SelectSeq(sent, LAMBDA evt : ToJSON(evt).err = "")
             \/ encoder.format # "sse" /\ Emitted = <<>>)

----------------------------------------------------------------------------
(* Vocabulary of the ConvertEvent properties *)

\* this step is ConvertEvent on an event all of whose parts are in P
ConvertsOnly(P) ==
    /\ CalledOn("adk", "ConvertEvent")
    /\ Arg.adkEvent.Parts # <<>>
    /\ \A i \in 1..Len(Arg.adkEvent.Parts) : Arg.adkEvent.Parts[i] \in P

\* the events of evts whose type is in T
OfTypes(evts, T) == SelectSeq(evts, LAMBDA e : e.Type \in T)

\* id was not generated or used before this step
FreshADKID(id) ==
    /\ id # ""
    /\ id \notin MessageIDsIn(stream) \cup ToolCallIDsIn(stream)
    /\ id \notin {adk.threadID, adk.runID, adk.currentMessageID}
    /\ id \notin DOMAIN adk.activeToolCalls

----------------------------------------------------------------------------
\* C26: ConvertEvent on text parts returns, as its text-message events, one
\* TEXT_MESSAGE_CONTENT per part in order, all with the id of the open
\* message; when no message was open they are preceded by one
\* TEXT_MESSAGE_START with a fresh id, which becomes the open message; when
\* one was open there is no TEXT_MESSAGE_START and the id is unchanged
C26_TextPartStep ==
    ConvertsOnly({TextPart(t) : t \in {"Hello"}}) =>
      LET parts == Arg.adkEvent.Parts
          msgs == OfTypes(ret', {"TEXT_MESSAGE_START", "TEXT_MESSAGE_CONTENT",
                                 "TEXT_MESSAGE_END"})
          id == adk'.currentMessageID
          contents == [i \in 1..Len(parts) |-> TextMessageContent(id, parts[i].Text)]
      IN  /\ adk'.messageStarted
          /\ IF adk.messageStarted
               THEN /\ id = adk.currentMessageID
                    /\ msgs = contents
                    /\ uuids' = uuids
               ELSE /\ FreshADKID(id)
                    /\ Len(msgs) = Len(parts) + 1
                    /\ msgs[1].Type = "TEXT_MESSAGE_START"
                    /\ msgs[1].MessageID = id
                    /\ SubSeq(msgs, 2, Len(msgs)) = contents

C26_TextParts == [][C26_TextPartStep]_vars

C26_Witness ==
    /\ kind = "adk"
    /\ Len(trace) = 2
    /\ TypeSeq(stream) = <<"TEXT_MESSAGE_START", "TEXT_MESSAGE_CONTENT",
                           "TEXT_MESSAGE_CONTENT">>
    /\ stream[3].MessageID = stream[1].MessageID
    /\ adk.messageStarted

----------------------------------------------------------------------------
\* C27: ConvertEvent on one function-call part returns, of the text-message
\* and tool-call events, a TEXT_MESSAGE_END for the message that was open,
\* if any, then TOOL_CALL_START, then TOOL_CALL_ARGS when the call has
\* arguments, then TOOL_CALL_END; the three carry the call's id, a fresh
\* one when the call has none; no message is open afterwards
C27_FunctionCallStep ==
    (/\ ConvertsOnly({p \in PartsIn : p.FunctionCall # Nil})
     /\ Len(Arg.adkEvent.Parts) = 1) =>
      LET fc == Deref(Arg.adkEvent.Parts[1].FunctionCall)
          evs == OfTypes(ret', {"TEXT_MESSAGE_START", "TEXT_MESSAGE_CONTENT",
                                "TEXT_MESSAGE_END", "TOOL_CALL_START",
                                "TOOL_CALL_ARGS", "TOOL_CALL_END",
                                "TOOL_CALL_RESULT"})
          closing == IF adk.messageStarted
                       THEN <<TextMessageEnd(adk.currentMessageID)>> ELSE <<>>
          calls == SubSeq(evs, Len(closing) + 1, Len(evs))
          id == calls[1].ToolCallID
      IN  /\ ~adk'.messageStarted
          /\ Len(evs) = Len(closing) + (IF fc.Args # Nil THEN 3 ELSE 2)
          /\ SubSeq(evs, 1, Len(closing)) = closing
          /\ TypeSeq(calls) = IF fc.Args # Nil
                                THEN <<"TOOL_CALL_START", "TOOL_CALL_ARGS",
                                       "TOOL_CALL_END">>
                                ELSE <<"TOOL_CALL_START", "TOOL_CALL_END">>
          /\ \A i \in 1..Len(calls) : calls[i].ToolCallID = id
          /\ id # ""
          /\ fc.ID # "" => id = fc.ID
          /\ fc.ID = "" => FreshADKID(id)
          /\ calls[1].ToolCallName = fc.Name
          /\ fc.Args # Nil => calls[2].Delta = Deref(fc.Args)

C27_FunctionCall == [][C27_FunctionCallStep]_vars

C27_Witness ==
    /\ kind = "adk"
    /\ Len(trace) = 2
    /\ TypeSeq(stream) = <<"TEXT_MESSAGE_START", "TEXT_MESSAGE_CONTENT",
                           "TEXT_MESSAGE_END", "TOOL_CALL_START",
                           "TOOL_CALL_ARGS", "TOOL_CALL_END">>
    /\ stream[3].MessageID = stream[1].MessageID
    /\ ~adk.messageStarted

----------------------------------------------------------------------------
\* C28: with the default options ConvertEvent on one thought part with text
\* returns exactly THINKING_START, THINKING_TEXT_MESSAGE_START,
\* THINKING_TEXT_MESSAGE_CONTENT with the text, THINKING_TEXT_MESSAGE_END,
\* THINKING_END, and on one with empty text nothing; the converter is left
\* as it was
C28_ThoughtStep ==
    (/\ ConvertsOnly({ThoughtPart(t) : t \in {"", "hmm"}})
     /\ Len(Arg.adkEvent.Parts) = 1
     /\ Arg.adkEvent.Actions = NoActions
     /\ adk.options = Options(FALSE, FALSE, FALSE)) =>
      LET thought == Arg.adkEvent.Parts[1].Text
      IN  /\ adk' = adk
          /\ uuids' = uuids
          /\ thought = "" => ret' = <<>>
          /\ thought # "" =>
                ret' = <<[Type |-> "THINKING_START"],
                         [Type |-> "THINKING_TEXT_MESSAGE_START"],
                         [Type |-> "THINKING_TEXT_MESSAGE_CONTENT", Delta |-> thought],
                         [Type |-> "THINKING_TEXT_MESSAGE_END"],
                         [Type |-> "THINKING_END"]>>

----------------------------------------------------------------------------
----------------------------------------------------------------------------
\* the optional string fields of an event type, each with its key
OptionalFields(type) ==
    CASE type = "RUN_ERROR" ->
           {<<"ThreadID", "threadId">>, <<"RunID", "runId">>, <<"Code", "code">>}
      [] type = "TOOL_CALL_START" -> {<<"ParentMessageID", "parentMessageId">>}
      [] type = "TOOL_CALL_RESULT" -> {<<"Role", "role">>}
      [] OTHER -> {}

\* C30: the wire form of an event carries its type, decoding it gives the
\* event back, a populated optional field is on the wire with its value,
\* and an unpopulated one (threadId, runId, code of RunError,
\* parentMessageId of ToolCallStart, role of ToolCallResult, rawEvent) has
\* no key on the wire
C30_RoundTrip ==
    encCall.op = "ToJSON" =>
      LET evt == encCall.events[1]
          obj == encCall.data[1]
          back == encCall.data[2]
      IN  /\ obj.type = evt.Type
          /\ back = evt
          /\ \A o \in OptionalFields(evt.Type) :
                IF evt[o[1]] = "" THEN o[2] \notin DOMAIN obj
                ELSE o[2] \in DOMAIN obj /\ obj[o[2]] = evt[o[1]]
          /\ IF evt.RawEvent = Nil THEN "rawEvent" \notin DOMAIN obj
             ELSE "rawEvent" \in DOMAIN obj /\ obj.rawEvent = evt.RawEvent

C30_Witness ==
    /\ encCall.op = "ToJSON"
    /\ encCall.events[1].Type = "RUN_ERROR"
    /\ encCall.events[1].ThreadID = ""
    /\ encCall.events[1].RunID = "r1"
    /\ DOMAIN encCall.data[1] = {"type", "timestamp", "runId", "message"}
    /\ encCall.data[2].Code = ""

----------------------------------------------------------------------------
\* the tool calls a stream has started and not answered since by a
\* TOOL_CALL_RESULT
Unanswered(st) ==
    {st[j].ToolCallID : j \in
        {i \in 1..Len(st) :
            /\ st[i].Type = "TOOL_CALL_START"
            /\ ~\E r \in (i + 1)..Len(st) :
                    /\ st[r].Type = "TOOL_CALL_RESULT"
                    /\ st[r].ToolCallID = st[i].ToolCallID}}

\* C31: AddToolCallArgs and EndToolCall change nothing of the converter,
\* and in every state the tracked ids are the ids StartToolCall started
\* that no later AddToolCallResult was given
C31_Tracking ==
    /\ [](kind = "base" => DOMAIN base.activeToolCalls = Unanswered(stream))
    /\ [][(CalledOn("base", "AddToolCallArgs") \/ CalledOn("base", "EndToolCall")) =>
             base' = base /\ uuids' = uuids]_vars

C31_Witness ==
    /\ kind = "base"
    /\ Len(trace) = 3
    /\ OpNames(trace) = <<"StartToolCall", "AddToolCallArgs", "EndToolCall">>
    /\ trace[3].toolCallID = stream[1].ToolCallID
    /\ DOMAIN base.activeToolCalls = {stream[1].ToolCallID}

----------------------------------------------------------------------------
\* the last call was FinishRun or ErrorRun
AfterTerminal ==
    kind = "base" /\ trace # <<>> /\ LastCall.op \in {"FinishRun", "ErrorRun"}

----------------------------------------------------------------------------
\* C39: the ToolCallStart of StartToolCall carries as parentMessageId the id
\* of the message most recently started on the converter, open or closed,
\* and the empty id, which has no key on the wire, exactly when no message
\* was ever started
C39_ParentStep ==
    CalledOn("base", "StartToolCall") =>
      LET e == ret'[Len(ret')]
          obj == MarshalJSON(WithBase(e, Nil))
          everStarted == \E i \in 1..Len(stream) : IsStart(stream[i])
      IN  /\ e.Type = "TOOL_CALL_START"
          /\ e.ParentMessageID = LastStartedMessage(stream)
          /\ everStarted <=> "parentMessageId" \in DOMAIN obj
          /\ everStarted => obj.parentMessageId = LastStartedMessage(stream)

C39_ParentMessageID == [][C39_ParentStep]_vars

C39_Witness ==
    /\ kind = "base"
    /\ OpNames(trace) = <<"StartMessage", "EndMessage", "StartToolCall">>
    /\ stream[3].Type = "TOOL_CALL_START"
    /\ stream[3].ParentMessageID = stream[1].MessageID
    /\ stream[3].ParentMessageID # ""

----------------------------------------------------------------------------
\* C37: when ConvertEvent is given a function call with a blank id and then
\* the function response answering it, also with a blank id, the
\* TOOL_CALL_RESULT carries the toolCallId of the TOOL_CALL_START and no
\* tool call is tracked afterwards
C37_BlankIDs ==
    (/\ kind = "adk"
     /\ Len(trace) = 2
     /\ OpNames(trace) = <<"ConvertEvent", "ConvertEvent">>
     /\ trace[1].adkEvent.Parts = <<FunctionCallPart("", "search", Ptr("{}"))>>
     /\ trace[2].adkEvent.Parts = <<FunctionResponsePart("", Ptr("42"))>>) =>
        LET starts == OfTypes(stream, {"TOOL_CALL_START"})
            results == OfTypes(stream, {"TOOL_CALL_RESULT"})
        IN  /\ Len(starts) = 1
            /\ Len(results) = 1
            /\ results[1].ToolCallID = starts[1].ToolCallID
            /\ DOMAIN adk.activeToolCalls = {}

----------------------------------------------------------------------------
\* C38: for every Accept value ADKHandler.ServeHTTP streams exactly when
\* ParseAcceptHeader, which decides for the generic Handler, returns
\* text/event-stream
C38_SameMode == ADKStreams(accept) <=> contentType = SSEType

----------------------------------------------------------------------------
\* C33: in the buffered path of the generic Handler no byte of the body is
\* written while the producer has not closed its channel or the handler is
\* still collecting; the step that ends the handler is the only one that
\* writes, and a body that was written whole is one write holding every
\* event the producer sent that has an encoding, in the order sent
C33_Buffered ==
    /\ []((hkind = "Handler" /\ Running /\ contentType # SSEType) =>
             /\ (~closed \/ hpc = "json") => wire = <<>>
             /\ (hpc = "done" /\ wire # <<>> /\ wire[1] # Torn) =>
                   /\ Len(wire) = 1
                   /\ Emitted = SelectSeq(sent, LAMBDA evt : ToJSON(evt).err = ""))
    /\ [][(hkind = "Handler" /\ hpc = "json" /\ wire' # wire) =>
             closed /\ eventsCh = <<>> /\ hpc' = "done"]_vars

----------------------------------------------------------------------------
\* C36: once the generic Handler has returned, no send of the producer is
\* pending on the channel.  The producer sends with a plain "events <- evt",
\* which on an unbuffered channel ends only when the event is received, and
\* a handler that has returned receives nothing more: a send pending then is
\* pending forever
C36_NoBlockedProducer ==
    (hkind = "Handler" /\ Running /\ hpc = "done") => eventsCh = <<>>

----------------------------------------------------------------------------
(* The parts of C40 *)

\* once the producer has closed the channel the handler returns
C40_ClosedCompletes == (hkind = "Handler" /\ Running /\ closed) ~> hpc = "done"

\* no Write of the response failed
NoWriteFailed ==
    IF contentType = SSEType
      THEN encCall.err # "failed to write event"
      ELSE wire # <<>> /\ wire[1] # Torn

\* ... having written every event produced, provided no write fails
C40_AllWritten ==
    [](((hkind = "Handler" /\ Running /\ closed /\ hpc = "done") /\ NoWriteFailed) =>
          Emitted = SelectSeq(sent, LAMBDA evt : ToJSON(evt).err = ""))

\* the streaming path returns at the first Write that fails
C40_WriteFailureCompletes ==
    [][(hkind = "Handler" /\ WriteFailed) => hpc' = "done"]_vars

\* while the producer has not closed the channel the request stays open,
\* but for a failed Write of the stream; the buffered path has written
\* nothing
C40_OpenUntilClosed ==
    []((hkind = "Handler" /\ Running /\ ~closed) =>
          IF contentType = SSEType
            THEN hpc = "sse" \/ encCall.err = "failed to write event"
            ELSE hpc = "json" /\ wire = <<>>)

\* C40: under fair scheduling of the handler, the request of the generic
\* Handler completes once the producer has closed its channel, with every
\* event produced written if no Write failed; the stream also completes at
\* the first failed Write; and as long as the producer does not close, the
\* request stays open, in the buffered path with no byte written
C40_Termination ==
    /\ C40_ClosedCompletes
    /\ C40_AllWritten
    /\ C40_WriteFailureCompletes
    /\ C40_OpenUntilClosed

----------------------------------------------------------------------------
(* Vocabulary of the properties of concurrent callers *)

\* the number of TextMessageEnd{m} in what the calls have returned and in
\* what the calls under way have built
EndsFor(m) ==
    Cardinality({i \in 1..Len(stream) : IsEnd(stream[i]) /\ stream[i].MessageID = m})
    + Cardinality({p \in UNION {{<<g, i>> : i \in 1..Len(gor[g].ev)} : g \in Goroutines} :
                      /\ IsEnd(gor[p[1]].ev[p[2]])
                      /\ gor[p[1]].ev[p[2]].MessageID = m})

\* C34: under any interleaving of concurrent StartMessage, StartToolCall,
\* FinishRun and ErrorRun on one BaseConverter, no other goroutine changes
\* the converter between a call's test of the open-message state and its
\* return; every message is closed by at most one TextMessageEnd; at most
\* one message is open, and when no call holds the mutex it is the one the
\* converter's fields name
C34_Atomic ==
    /\ [](kind = "base" =>
             /\ \A n \in 1..uuids : EndsFor(UUID(n)) <= 1
             /\ Cardinality(OpenMessages(stream)) <= 1
             /\ mu = "" => OpenMessages(stream) =
                              IF base.messageStarted
                                THEN {base.currentMessageID} ELSE {})
    /\ [][(/\ kind = "base"
           /\ \E g \in Goroutines :
                 gor[g].pc \in {"update", "unlock"} /\ gor'[g] = gor[g]) =>
             base' = base]_vars

\* FinishRun holds the mutex and has closed the open message while a
\* concurrent StartMessage waits for the mutex
C34_Witness ==
    /\ kind = "base"
    /\ mu = "g1"
    /\ gor["g1"].op = "FinishRun"
    /\ gor["g1"].pc = "unlock"
    /\ gor["g1"].br
    /\ gor["g2"].op = "StartMessage"
    /\ gor["g2"].pc = "lock"

----------------------------------------------------------------------------
\* C35: every read and every write of a converter's current message id,
\* message-open flag and tracked tool calls is made by the goroutine that
\* holds the converter's mutex, and no id is read while another goroutine
\* is replacing it
C35_AllLocked ==
    /\ [](~raced)
    /\ [][(\E g \in Goroutines :
              /\ gor[g].pc = "thought"
              /\ gor'[g].pc = "unlock"
              /\ adk.options.EmitActivityEvents) =>
            ~\E h \in Goroutines : /\ gor[h].op = "handleTextPart"
                                   /\ gor[h].pc = "update"
                                   /\ gor[h].br]_vars

====
